---- MODULE Spec2Model ----
(***************************************************************************)
(* Listing acquisition and normalisation pipeline of the real-estate       *)
(* scraping service (RealtorScrapingService) together with its callers.    *)
(*                                                                         *)
(* JavaScript strings are modelled as sequences of one-character strings,  *)
(* so that toLowerCase, trim, split and prefix tests are computed and not  *)
(* assumed.  A JavaScript value is a record [k, s]: k is the kind          *)
(* ("undef", "null", "str", "num", ...) and s the characters of a string   *)
(* or of a numeral; objects and arrays have a third field o.               *)
(***************************************************************************)
EXTENDS Integers, Sequences, FiniteSets, Bags, TLC

\* ------------------------------------------------------------------------
\* Bounds of the model
\* ------------------------------------------------------------------------
MaxLen == 3          \* longest array handed to deduplicateListings
MaxItems == 2        \* most items in the hosted actor's dataset
MaxCards == 1        \* most property cards on one scraped page
NumUrls == 3         \* length of options.fallbackUrls
PollLatencyTicks == 1  \* longest time one dataset poll takes, in ticks

\* ------------------------------------------------------------------------
\* JavaScript values
\* ------------------------------------------------------------------------
Undef == [k |-> "undef", s |-> << >>]
Null == [k |-> "null", s |-> << >>]
Str(chars) == [k |-> "str", s |-> chars]

\* JavaScript truthiness of a value (undefined, null, "", 0, NaN and false
\* are falsy)
Truthy(v) ==
  \/ v.k = "str" /\ v.s # << >>
  \/ v.k = "num" /\ v.s # <<"0">>
  \/ v.k = "bool" /\ v.s # << >>
  \/ v.k \in {"inf", "obj", "arr"}

\* a || b
Or(a, b) == IF Truthy(a) THEN a ELSE b

\* the lowercase form of each uppercase letter
LowerOf ==
  [A |-> "a", B |-> "b", C |-> "c", D |-> "d", E |-> "e", F |-> "f",
   G |-> "g", H |-> "h", I |-> "i", J |-> "j", K |-> "k", L |-> "l",
   M |-> "m", N |-> "n", O |-> "o", P |-> "p", Q |-> "q", R |-> "r",
   S |-> "s", T |-> "t", U |-> "u", V |-> "v", W |-> "w", X |-> "x",
   Y |-> "y", Z |-> "z"]

LowerChar(c) == IF c \in DOMAIN LowerOf THEN LowerOf[c] ELSE c

\* String.prototype.toLowerCase
toLowerCase(chars) == [i \in DOMAIN chars |-> LowerChar(chars[i])]

RECURSIVE TrimStart(_)
TrimStart(chars) ==
  IF chars # << >> /\ Head(chars) = " " THEN TrimStart(Tail(chars)) ELSE chars

RECURSIVE TrimEnd(_)
TrimEnd(chars) ==
  IF chars # << >> /\ chars[Len(chars)] = " "
  THEN TrimEnd(SubSeq(chars, 1, Len(chars) - 1))
  ELSE chars

\* String.prototype.trim
trim(chars) == TrimEnd(TrimStart(chars))

\* String.prototype.startsWith
startsWith(chars, prefix) ==
  /\ Len(chars) >= Len(prefix)
  /\ SubSeq(chars, 1, Len(prefix)) = prefix

\* ------------------------------------------------------------------------
\* RealtorScrapingService: string helpers
\* ------------------------------------------------------------------------
BASE_REALTOR_URL ==
  <<"h", "t", "t", "p", "s", ":", "/", "/", "w", "w", "w", ".",
    "r", "e", "a", "l", "t", "o", "r", ".", "c", "a">>

cleanString(value) ==
  IF value.k # "str"
  THEN (IF value.k = "undef" THEN Null ELSE value)
  ELSE IF Len(trim(value.s)) > 0 THEN Str(trim(value.s)) ELSE Null

\* /^https?:\/\//i
IsHttpUrl(chars) ==
  \/ startsWith(toLowerCase(chars), <<"h", "t", "t", "p", ":", "/", "/">>)
  \/ startsWith(toLowerCase(chars), <<"h", "t", "t", "p", "s", ":", "/", "/">>)

ensureAbsoluteUrl(url) ==
  IF ~Truthy(url) \/ url.k # "str" THEN Null
  ELSE IF IsHttpUrl(url.s) THEN url
  ELSE Str(BASE_REALTOR_URL
           \o (IF startsWith(url.s, <<"/">>) THEN << >> ELSE <<"/">>)
           \o url.s)

\* ------------------------------------------------------------------------
\* Deduplicator
\* ------------------------------------------------------------------------
\* A canonical listing is projected on the fields the acquisition pipeline
\* reads: [mlsNumber, listingUrl, address, city].  NoListing stands for a
\* null entry of the input array.
NoListing == [mlsNumber |-> Null, listingUrl |-> Null, address |-> Null,
              city |-> Null, isNull |-> TRUE]

Listing(mls, url, addr, city) ==
  [mlsNumber |-> mls, listingUrl |-> url, address |-> addr, city |-> city,
   isNull |-> FALSE]

\* the key expression of deduplicateListings; Undef when all three are falsy
DedupKey(listing) ==
  IF Truthy(listing.mlsNumber) THEN Str(toLowerCase(listing.mlsNumber.s))
  ELSE IF Truthy(listing.listingUrl) THEN Str(toLowerCase(listing.listingUrl.s))
  ELSE IF Truthy(listing.address) THEN Str(toLowerCase(listing.address.s))
  ELSE Undef

\* The Map `unique` is a sequence of [key, value] entries in insertion order.
MapHas(unique, key) == \E i \in DOMAIN unique : unique[i].key = key

\* Variant of the loop in which a later listing overwrites the entry of its key.
RECURSIVE DedupLoop_LastWins(_, _)
DedupLoop_LastWins(listings, unique) ==
  IF listings = << >> THEN unique
  ELSE LET listing == Head(listings)
           key == DedupKey(listing)
       IN IF listing.isNull \/ ~Truthy(key)
          THEN DedupLoop_LastWins(Tail(listings), unique)
          ELSE IF ~MapHas(unique, key)
               THEN DedupLoop_LastWins(Tail(listings),
                      Append(unique, [key |-> key, value |-> listing]))
               ELSE DedupLoop_LastWins(Tail(listings),
                      [i \in DOMAIN unique |->
                         IF unique[i].key = key
                         THEN [key |-> key, value |-> listing]
                         ELSE unique[i]])

\* Variant of the loop without the `if (!key) continue` guard.
RECURSIVE DedupLoop_NoKeyGuard(_, _)
DedupLoop_NoKeyGuard(listings, unique) ==
  IF listings = << >> THEN unique
  ELSE LET listing == Head(listings)
           key == DedupKey(listing)
       IN IF listing.isNull THEN DedupLoop_NoKeyGuard(Tail(listings), unique)
          ELSE IF ~MapHas(unique, key)
               THEN DedupLoop_NoKeyGuard(Tail(listings),
                      Append(unique, [key |-> key, value |-> listing]))
               ELSE DedupLoop_NoKeyGuard(Tail(listings), unique)

RECURSIVE DedupLoop(_, _)
DedupLoop(listings, unique) ==
  IF listings = << >> THEN unique
  ELSE LET listing == Head(listings)
           key == DedupKey(listing)
       IN IF listing.isNull THEN DedupLoop(Tail(listings), unique)
          ELSE IF ~Truthy(key) THEN DedupLoop(Tail(listings), unique)
          ELSE IF ~MapHas(unique, key)
               THEN DedupLoop(Tail(listings),
                              Append(unique, [key |-> key, value |-> listing]))
               ELSE DedupLoop(Tail(listings), unique)

MapValues(unique) == [i \in DOMAIN unique |-> unique[i].value]

deduplicateListings(listings) == MapValues(DedupLoop(listings, << >>))

\* ------------------------------------------------------------------------
\* Geographic allow-list
\* ------------------------------------------------------------------------
WINDSOR_ESSEX_CITY_NAMES ==
  { <<"W", "i", "n", "d", "s", "o", "r">>,
    <<"T", "e", "c", "u", "m", "s", "e", "h">>,
    <<"L", "a", "S", "a", "l", "l", "e">>,
    <<"A", "m", "h", "e", "r", "s", "t", "b", "u", "r", "g">>,
    <<"L", "a", "k", "e", "s", "h", "o", "r", "e">>,
    <<"K", "i", "n", "g", "s", "v", "i", "l", "l", "e">>,
    <<"L", "e", "a", "m", "i", "n", "g", "t", "o", "n">>,
    <<"E", "s", "s", "e", "x">>,
    <<"B", "e", "l", "l", "e", " ", "R", "i", "v", "e", "r">>,
    <<"H", "a", "r", "r", "o", "w">>,
    <<"M", "a", "i", "d", "s", "t", "o", "n", "e">>,
    <<"M", "c", "G", "r", "e", "g", "o", "r">>,
    <<"C", "o", "t", "t", "a", "m">>,
    <<"S", "t", "o", "n", "e", "y", " ", "P", "o", "i", "n", "t">>,
    <<"S", "t", "a", "p", "l", "e", "s">> }

\* the names after .map((city) => city.toLowerCase())
WINDSOR_ESSEX_CITIES == { toLowerCase(name) : name \in WINDSOR_ESSEX_CITY_NAMES }

\* listing.city && WINDSOR_ESSEX_CITIES.includes(listing.city.toLowerCase())
InTargetRegion(listing) ==
  /\ Truthy(listing.city)
  /\ toLowerCase(listing.city.s) \in WINDSOR_ESSEX_CITIES

\* Variant of the filter predicate that only requires a city.
GeoFilter_AnyCity(listings) == SelectSeq(listings, LAMBDA l : Truthy(l.city))

GeoFilter(listings) == SelectSeq(listings, InTargetRegion)

\* .filter(Boolean)
FilterBoolean(listings) == SelectSeq(listings, LAMBDA l : ~l.isNull)

\* ------------------------------------------------------------------------
\* Listing Normalizer (projection on mlsNumber, address, city, listingUrl)
\* ------------------------------------------------------------------------
\* A raw dataset item is [isNull, mlsNumber, url, addressText, city]; the
\* other candidate keys of the normalizer are absent (undefined).
RawItem(mls, url, addressText, city) ==
  [isNull |-> FALSE, mlsNumber |-> mls, url |-> url,
   addressText |-> addressText, city |-> city]

NullItem == [isNull |-> TRUE, mlsNumber |-> Undef, url |-> Undef,
             addressText |-> Undef, city |-> Undef]

\* formatAddress(location, raw) with an empty location object
formatAddress(raw) ==
  IF Truthy(raw.addressText) THEN cleanString(raw.addressText) ELSE Null

normalizeListing(raw) ==
  IF raw.isNull THEN NoListing
  ELSE Listing(cleanString(Or(raw.mlsNumber, Undef)),
               ensureAbsoluteUrl(Or(raw.url, Undef)),
               formatAddress(raw),
               cleanString(Or(raw.city, Undef)))

\* lines 93-100: map, filter(Boolean), geographic filter, deduplicate
PrimaryResult(listings) ==
  deduplicateListings(GeoFilter(FilterBoolean(
    [i \in DOMAIN listings |-> normalizeListing(listings[i])])))

\* ------------------------------------------------------------------------
\* Fallback normalizer
\* ------------------------------------------------------------------------
\* address.split(','): the pieces between commas, `cur` being the piece read
\* so far
RECURSIVE SplitComma(_, _)
SplitComma(chars, cur) ==
  IF chars = << >> THEN <<cur>>
  ELSE IF Head(chars) = "," THEN <<cur>> \o SplitComma(Tail(chars), << >>)
  ELSE SplitComma(Tail(chars), Append(cur, Head(chars)))

AddressParts(chars) ==
  LET pieces == SplitComma(chars, << >>)
  IN SelectSeq([i \in DOMAIN pieces |-> trim(pieces[i])],
               LAMBDA part : part # << >>)

extractCityFromAddress(address) ==
  IF ~Truthy(address) THEN Null
  ELSE LET parts == AddressParts(address.s)
           hits == { i \in DOMAIN parts : toLowerCase(parts[i]) \in WINDSOR_ESSEX_CITIES }
       IN IF hits # {} THEN Str(parts[CHOOSE i \in hits : \A j \in hits : i <= j])
          ELSE IF Len(parts) >= 2 THEN Str(parts[Len(parts) - 1])
          ELSE IF Len(parts) >= 1 THEN Str(parts[1])
          ELSE Null

\* A property card of the page is [text, href]: the text content of its
\* address element (Null when the element is missing) and the href of its
\* link (Null when there is none).
Card(text, href) == [text |-> text, href |-> href]

\* the item page.evaluate builds for one card
EvaluateCard(card) ==
  [address |-> IF card.text.k = "str" THEN Str(trim(card.text.s)) ELSE Null,
   listingUrl |-> IF Truthy(card.href)
                  THEN (IF startsWith(card.href.s, <<"h", "t", "t", "p">>)
                        THEN card.href
                        ELSE Str(BASE_REALTOR_URL \o card.href.s))
                  ELSE Null]

normalizeFallbackListing(item) ==
  IF ~Truthy(item.address) THEN NoListing
  ELSE Listing(Null,
               ensureAbsoluteUrl(item.listingUrl),
               cleanString(item.address),
               extractCityFromAddress(item.address))

\* the value customScrapeRealtor returns for the cards of a page
ScrapedListings(cards) ==
  FilterBoolean(
    [i \in DOMAIN cards |-> normalizeFallbackListing(EvaluateCard(cards[i]))])

\* the value scrapeWithPuppeteerFallback returns for the collected results
FallbackResult(listings) == GeoFilter(deduplicateListings(listings))

\* ------------------------------------------------------------------------
\* JavaScript values of the other types
\* ------------------------------------------------------------------------
\* A number is [k |-> "num", s |-> the characters of String(number)], so
\* that Number(text) and the currency formatter are computed on numerals.
\* Objects and arrays carry their properties / elements in a third field o.
Num(chars) == [k |-> "num", s |-> chars]
NaN == [k |-> "nan", s |-> << >>]
Infinity == [k |-> "inf", s |-> << >>]
NegInfinity == [k |-> "inf", s |-> <<"-">>]
True == [k |-> "bool", s |-> <<"t">>]
False == [k |-> "bool", s |-> << >>]
Obj(props) == [k |-> "obj", s |-> << >>, o |-> props]
Arr(elems) == [k |-> "arr", s |-> << >>, o |-> elems]
EmptyObject == Obj(<< >>)

\* typeof value
TypeOf(v) ==
  CASE v.k = "undef" -> "undefined"
    [] v.k = "str" -> "string"
    [] v.k \in {"num", "nan", "inf"} -> "number"
    [] v.k = "bool" -> "boolean"
    [] OTHER -> "object"

\* value.key for a value that is neither null nor undefined
Get(v, key) ==
  IF v.k = "obj" /\ key \in DOMAIN v.o THEN v.o[key] ELSE Undef

\* value?.key
OptGet(v, key) == IF v.k \in {"undef", "null"} THEN Undef ELSE Get(v, key)

\* a ?? b
Nullish(a, b) == IF a.k \in {"undef", "null"} THEN b ELSE a

\* Array.isArray(value)
IsArray(v) == v.k = "arr"

\* the first element of a non-empty sequence of operands that is truthy,
\* the last one when none is: a || b || ... || z
RECURSIVE OrChain(_)
OrChain(operands) ==
  IF Len(operands) = 1 \/ Truthy(Head(operands)) THEN Head(operands)
  ELSE OrChain(Tail(operands))

\* a ?? b ?? ... ?? z
RECURSIVE NullishChain(_)
NullishChain(operands) ==
  IF Len(operands) = 1 \/ Head(operands).k \notin {"undef", "null"}
  THEN Head(operands)
  ELSE NullishChain(Tail(operands))

\* ------------------------------------------------------------------------
\* Number parsing (parsePrice, extractNumber)
\* ------------------------------------------------------------------------
DigitChars == <<"0", "1", "2", "3", "4", "5", "6", "7", "8", "9">>
Digits == { DigitChars[i] : i \in DOMAIN DigitChars }
DigitValue(c) == (CHOOSE i \in DOMAIN DigitChars : DigitChars[i] = c) - 1

\* value.replace(/[^0-9.,-]+/g, '')
KeepNumeric(chars) ==
  SelectSeq(chars, LAMBDA c : c \in Digits \cup {".", ",", "-"})

RECURSIVE StripLeadingZeros(_)
StripLeadingZeros(digits) ==
  IF Len(digits) > 1 /\ Head(digits) = "0" THEN StripLeadingZeros(Tail(digits))
  ELSE digits

\* the number a string holds for parsePrice / extractNumber, Null if none.
\* match is normalized.match(/-?\d+(?:[.,]\d+)?/)[0], the text of the leftmost
\* match (<< >>: no match); ToNumber is Number(text) for a numeral -?d+(.d+)?
\* of at most 15 significant digits: the number whose decimal representation
\* has neither leading nor trailing zeros (Number("-0") prints as 0 and is
\* falsy like 0)
NumberInString(chars) ==
  LET RECURSIVE DigitRun(_, _)
      DigitRun(text, i) ==
        IF i <= Len(text) /\ text[i] \in Digits THEN 1 + DigitRun(text, i + 1)
        ELSE 0
      \* the match that starts at first, e being the index after its
      \* integer digits
      MatchFrom(normalized, first, e) ==
        SubSeq(normalized, first,
               IF /\ e < Len(normalized) /\ normalized[e] \in {".", ","}
                  /\ DigitRun(normalized, e + 1) > 0
               THEN e + DigitRun(normalized, e + 1) ELSE e - 1)
      MatchAt(normalized, first, d) ==
        MatchFrom(normalized, first, d + DigitRun(normalized, d))
      Leftmost(normalized, starts) ==
        IF starts = {} THEN << >>
        ELSE LET first == CHOOSE a \in starts : \A b \in starts : a <= b
             IN MatchAt(normalized, first,
                        IF normalized[first] = "-" THEN first + 1 ELSE first)
      Match(normalized) ==
        Leftmost(normalized,
                 { i \in DOMAIN normalized :
                     \/ normalized[i] \in Digits
                     \/ /\ normalized[i] = "-" /\ i < Len(normalized)
                        /\ normalized[i + 1] \in Digits })
      RECURSIVE StripTrailingZeros(_)
      StripTrailingZeros(digits) ==
        IF digits # << >> /\ digits[Len(digits)] = "0"
        THEN StripTrailingZeros(SubSeq(digits, 1, Len(digits) - 1))
        ELSE digits
      Numeral(neg, int, frac) ==
        LET mag == IF frac = << >> THEN int ELSE int \o <<".">> \o frac
        IN Num(IF neg /\ mag # <<"0">> THEN <<"-">> \o mag ELSE mag)
      Split(neg, body, dots) ==
        LET p == IF dots = {} THEN Len(body) + 1 ELSE CHOOSE i \in dots : TRUE
        IN Numeral(neg, StripLeadingZeros(SubSeq(body, 1, p - 1)),
                   StripTrailingZeros(SubSeq(body, p + 1, Len(body))))
      Unsigned(neg, body) ==
        Split(neg, body, { i \in DOMAIN body : body[i] = "." })
      ToNumber(text) ==
        Unsigned(Head(text) = "-", IF Head(text) = "-" THEN Tail(text) ELSE text)
      Value(match) ==
        IF match = << >> THEN Null
        ELSE ToNumber(SelectSeq(match, LAMBDA c : c # ","))
  IN Value(Match(KeepNumeric(chars)))

RECURSIVE parsePrice(_)
parsePrice(value) ==
  IF value.k \in {"null", "undef"} THEN Null
  ELSE IF value.k \in {"num", "inf"} THEN value
  ELSE IF /\ TypeOf(value) = "object"
          /\ OrChain(<<Get(value, "amount"), Get(value, "value"),
                       Get(value, "price")>>).k # "undef"
       THEN parsePrice(OrChain(<<Get(value, "amount"), Get(value, "value"),
                                 Get(value, "price")>>))
  ELSE IF value.k = "str" THEN NumberInString(value.s)
  ELSE Null

extractNumber(value) ==
  IF value.k \in {"null", "undef"} THEN Null
  ELSE IF TypeOf(value) = "number"
       THEN (IF value.k = "nan" THEN Null ELSE value)
  ELSE IF value.k = "str" THEN NumberInString(value.s)
  ELSE Null

\* ------------------------------------------------------------------------
\* Currency formatting (formatPrice)
\* ------------------------------------------------------------------------
\* Intl.NumberFormat('en-CA', {style: 'currency', currency: 'CAD',
\* maximumFractionDigits: 0}).format(number): the magnitude rounded half away
\* from zero, grouped, after the sign and the dollar sign ("oo" stands for
\* the character U+221E the formatter prints for an infinite amount)
CurrencyFormat(number) ==
  LET RECURSIVE Increment(_)
      Increment(digits) ==
        IF digits = << >> THEN <<"1">>
        ELSE LET front == SubSeq(digits, 1, Len(digits) - 1)
                 last == digits[Len(digits)]
             IN IF last = "9" THEN Increment(front) \o <<"0">>
                ELSE Append(front, DigitChars[DigitValue(last) + 2])
      RECURSIVE GroupThousands(_)
      GroupThousands(digits) ==
        IF Len(digits) <= 3 THEN digits
        ELSE GroupThousands(SubSeq(digits, 1, Len(digits) - 3))
             \o <<",">> \o SubSeq(digits, Len(digits) - 2, Len(digits))
      neg == number.s # << >> /\ Head(number.s) = "-"
      body == IF neg THEN Tail(number.s) ELSE number.s
      dots == { i \in DOMAIN body : body[i] = "." }
      p == IF dots = {} THEN Len(body) + 1 ELSE CHOOSE i \in dots : TRUE
      int == SubSeq(body, 1, p - 1)
      up == p < Len(body) + 1 /\ DigitValue(body[p + 1]) >= 5
      rounded == IF up THEN StripLeadingZeros(Increment(int)) ELSE int
  IN Str((IF neg THEN <<"-">> ELSE << >>) \o <<"$">>
         \o (IF number.k = "inf" THEN <<"oo">>
             ELSE GroupThousands(rounded)))

formatPrice(value) ==
  IF value.k \in {"null", "undef", "nan"} THEN Null
  ELSE CurrencyFormat(value)

\* ------------------------------------------------------------------------
\* Listing Normalizer: raw records of any shape
\* ------------------------------------------------------------------------
\* String(value) as template literals and Array.prototype.join apply it
ToStr(v) ==
  CASE v.k = "str" -> v.s
    [] v.k = "num" -> v.s
    [] v.k = "inf" -> v.s \o <<"I", "n", "f", "i", "n", "i", "t", "y">>
    [] v.k = "nan" -> <<"N", "a", "N">>
    [] v.k = "bool" -> (IF v.s # << >> THEN <<"t", "r", "u", "e">>
                        ELSE <<"f", "a", "l", "s", "e">>)
    [] v.k = "undef" -> <<"u", "n", "d", "e", "f", "i", "n", "e", "d">>
    [] v.k = "null" -> <<"n", "u", "l", "l">>
    [] v.k = "arr" -> << >>
    [] OTHER -> <<"[", "o", "b", "j", "e", "c", "t", " ",
                  "O", "b", "j", "e", "c", "t", "]">>

\* parts.join(', ') of an array of strings and numbers
RECURSIVE JoinCommaSpace(_)
JoinCommaSpace(parts) ==
  IF parts = << >> THEN << >>
  ELSE IF Len(parts) = 1 THEN ToStr(parts[1])
  ELSE ToStr(parts[1]) \o <<",", " ">> \o JoinCommaSpace(Tail(parts))

\* a path is the sequence of its segments: 'a.b' is <<"a", "b">>
\* (none of the segments the service asks for is an index or "length", so
\* hasOwnProperty holds for the properties of objects only)
RECURSIVE valueFromPaths(_, _)
valueFromPaths(object, paths) ==
  IF paths = << >> THEN Null
  ELSE LET RECURSIVE Decimal(_)
           Decimal(n) ==
             IF n < 10 THEN <<DigitChars[n + 1]>>
             ELSE Decimal(n \div 10) \o <<DigitChars[(n % 10) + 1]>>
           \* "length" and the indices up to 9 of a string or an array
           Indexed(items) ==
             ("length" :> Num(Decimal(Len(items))))
             @@ [segment \in { DigitChars[i] : i \in { j \in DOMAIN items : j <= 10 } }
                   |-> items[DigitValue(segment) + 1]]
           \* the properties hasOwnProperty.call(current, segment) finds
           \* when current is truthy
           Own(current) ==
             IF ~Truthy(current) THEN << >>
             ELSE IF current.k = "obj" THEN current.o
             ELSE IF current.k = "arr" THEN Indexed(current.o)
             ELSE IF current.k = "str"
                  THEN Indexed([i \in DOMAIN current.s |-> Str(<<current.s[i]>>)])
             ELSE << >>
           RECURSIVE WalkPath(_, _)
           Step(own, segments) ==
             IF Head(segments) \in DOMAIN own
             THEN WalkPath(own[Head(segments)], Tail(segments))
             ELSE [valid |-> FALSE, value |-> Undef]
           WalkPath(current, segments) ==
             IF segments = << >> THEN [valid |-> TRUE, value |-> current]
             ELSE Step(Own(current), segments)
           Settle(w) ==
             IF /\ w.valid
                /\ w.value.k \notin {"undef", "null"}
                /\ ~(w.value.k = "str" /\ w.value.s = << >>)
             THEN w.value
             ELSE valueFromPaths(object, Tail(paths))
       IN Settle(WalkPath(object, Head(paths)))

LatitudePaths ==
  << <<"coordinates", "lat">>, <<"coordinates", "latitude">>,
     <<"location", "lat">>, <<"location", "latitude">>,
     <<"property", "location", "lat">>, <<"property", "location", "latitude">>,
     <<"geo", "lat">>, <<"geo", "latitude">> >>

LongitudePaths ==
  << <<"coordinates", "lng">>, <<"coordinates", "lon">>,
     <<"coordinates", "longitude">>,
     <<"location", "lng">>, <<"location", "lon">>, <<"location", "longitude">>,
     <<"property", "location", "lng">>, <<"property", "location", "lon">>,
     <<"property", "location", "longitude">>,
     <<"geo", "lng">>, <<"geo", "lon">>, <<"geo", "longitude">> >>

\* Variant that returns an object as soon as one of the two is a number.
extractCoordinates_Either(listing) ==
  LET lat == extractNumber(valueFromPaths(listing, LatitudePaths))
      lng == extractNumber(valueFromPaths(listing, LongitudePaths))
  IN IF lat.k # "null" \/ lng.k # "null"
     THEN Obj([lat |-> lat, lng |-> lng])
     ELSE Null

extractCoordinates(listing) ==
  LET lat == extractNumber(valueFromPaths(listing, LatitudePaths))
      lng == extractNumber(valueFromPaths(listing, LongitudePaths))
  IN IF lat.k # "null" /\ lng.k # "null"
     THEN Obj([lat |-> lat, lng |-> lng])
     ELSE Null

\* haystack.includes(needle)
Includes(haystack, needle) ==
  \E i \in 1..(Len(haystack) - Len(needle) + 1) :
    SubSeq(haystack, i, i + Len(needle) - 1) = needle

\* normalizeDetails for records whose details are under listing.details;
\* DetailEntry is the map callback (Null: the element is dropped)
normalizeDetails(listing) ==
  LET DetailEntry(detail) ==
        IF ~Truthy(detail) THEN Null
        ELSE IF detail.k = "str" THEN Obj([label |-> detail, value |-> detail])
        ELSE IF Truthy(Get(detail, "label")) \/ Truthy(Get(detail, "name"))
             THEN Obj([label |-> OrChain(<<Get(detail, "label"),
                                            Get(detail, "name"), Null>>),
                       value |-> NullishChain(<<Get(detail, "value"),
                                                Get(detail, "text"),
                                                Get(detail, "display"), Null>>)])
        ELSE IF IsArray(detail) /\ Len(detail.o) >= 2
             THEN Obj([label |-> detail.o[1], value |-> detail.o[2]])
        ELSE Null
  IN IF IsArray(Get(listing, "details"))
     THEN SelectSeq([i \in DOMAIN Get(listing, "details").o |->
                       DetailEntry(Get(listing, "details").o[i])],
                    Truthy)
     ELSE << >>

\* extractFeatures(listing); a path is the sequence of its segments, a
\* keyword the sequence of its characters; labels are strings or null
extractFeatures(listing) ==
  LET getDetailValue(normalizedDetails, keywords) ==
        LET Value(detail) ==
              NullishChain(<<Get(detail, "value"), Get(detail, "text"), Null>>)
            First(hits) ==
              IF hits = {} THEN Null
              ELSE Value(normalizedDetails[CHOOSE i \in hits :
                                             \A j \in hits : i <= j])
        IN First({ i \in DOMAIN normalizedDetails :
                     /\ Get(normalizedDetails[i], "label").k = "str"
                     /\ \E j \in DOMAIN keywords :
                          Includes(toLowerCase(Get(normalizedDetails[i], "label").s),
                                   toLowerCase(keywords[j])) })
      \* extractNumber(valueFromPaths(listing, paths)) ||
      \* extractNumber(getDetailValue(keywords))
      Number(normalizedDetails, paths, keywords) ==
        Or(extractNumber(valueFromPaths(listing, paths)),
           extractNumber(getDetailValue(normalizedDetails, keywords)))
      Features(bedrooms, bathrooms, squareFeet, lotSizeRaw, yearBuilt) ==
        [bedrooms |-> Nullish(bedrooms, Null),
         bathrooms |-> Nullish(bathrooms, Null),
         squareFeet |-> Nullish(squareFeet, Null),
         lotSize |-> extractNumber(lotSizeRaw),
         lotSizeText |-> cleanString(lotSizeRaw),
         yearBuilt |-> Nullish(yearBuilt, Null)]
      Extract(normalizedDetails) ==
        Features(
          Number(normalizedDetails,
            << <<"bedrooms">>, <<"bedroomsTotal">>, <<"bedroomsAboveGround">>,
            <<"property", "bedrooms">>,
            <<"property", "building", "bedrooms">>,
            <<"building", "bedrooms">>, <<"building", "bedroomsTotal">>,
            <<"summary", "bedrooms">> >>,
            << <<"b", "e", "d", "r", "o", "o", "m">>, <<"b", "e", "d">> >>),
          Number(normalizedDetails,
            << <<"bathrooms">>, <<"bathroomsTotal">>,
            <<"property", "bathrooms">>,
            <<"property", "building", "bathrooms">>,
            <<"building", "bathrooms">>, <<"summary", "bathrooms">> >>,
            << <<"b", "a", "t", "h", "r", "o", "o", "m">>,
            <<"b", "a", "t", "h">> >>),
          Number(normalizedDetails,
            << <<"sizeInterior">>, <<"building", "sizeInterior">>,
            <<"building", "totalFinishedArea">>,
            <<"property", "building", "sizeInterior">>,
            <<"property", "squareFeet">>, <<"squareFootage">>,
            <<"area">> >>,
            << <<"s", "q", "u", "a", "r", "e", " ", "f", "e", "e", "t">>,
            <<"s", "q", "f", "t">>,
            <<"i", "n", "t", "e", "r", "i", "o", "r">> >>),
          Or(valueFromPaths(listing,
            << <<"land", "sizeTotal">>, <<"land", "sizeTotalText">>,
            <<"land", "sizeFrontage">>, <<"property", "land", "sizeTotal">>,
            <<"lotSize">>, <<"lotSizeArea">>, <<"property", "landSize">> >>),
             getDetailValue(normalizedDetails,
            << <<"l", "o", "t", " ", "s", "i", "z", "e">>,
            <<"s", "i", "z", "e", " ", "t", "o", "t", "a", "l">>,
            <<"l", "a", "n", "d", " ", "s", "i", "z", "e">> >>)),
          Number(normalizedDetails,
            << <<"building", "builtYear">>, <<"building", "constructedDate">>,
            <<"property", "building", "builtYear">>,
            <<"property", "building", "constructedDate">> >>,
            << <<"b", "u", "i", "l", "t">>,
            <<"c", "o", "n", "s", "t", "r", "u", "c", "t", "e", "d">>,
            <<"y", "e", "a", "r">> >>))
  IN Extract(normalizeDetails(listing))

\* Variant of addImage that appends without looking the URL up.
addImage_NoDuplicateCheck(imageSet, url) ==
  IF ~Truthy(url) \/ url.k # "str" THEN imageSet
  ELSE LET trimmed == trim(url.s)
           absolute ==
             IF \/ startsWith(trimmed, <<"h", "t", "t", "p", ":", "/", "/">>)
                \/ startsWith(trimmed, <<"h", "t", "t", "p", "s", ":", "/", "/">>)
             THEN trimmed
             ELSE BASE_REALTOR_URL
                  \o (IF startsWith(trimmed, <<"/">>) THEN << >> ELSE <<"/">>)
                  \o trimmed
       IN IF trimmed = << >> THEN imageSet
          ELSE Append(imageSet, Str(absolute))

\* addImage(url) on the insertion-ordered Set imageSet
addImage(imageSet, url) ==
  IF ~Truthy(url) \/ url.k # "str" THEN imageSet
  ELSE LET trimmed == trim(url.s)
           absolute ==
             IF \/ startsWith(trimmed, <<"h", "t", "t", "p", ":", "/", "/">>)
                \/ startsWith(trimmed, <<"h", "t", "t", "p", "s", ":", "/", "/">>)
             THEN trimmed
             ELSE BASE_REALTOR_URL
                  \o (IF startsWith(trimmed, <<"/">>) THEN << >> ELSE <<"/">>)
                  \o trimmed
       IN IF trimmed = << >> THEN imageSet
          ELSE IF \E i \in DOMAIN imageSet : imageSet[i] = Str(absolute)
               THEN imageSet
               ELSE Append(imageSet, Str(absolute))

\* the values one candidate hands to addImage, in order; Object.values of
\* an object is taken in an arbitrary but fixed order (the records
\* considered hold at most one value per object candidate)
CandidateElements(candidate) ==
  LET keys == DOMAIN candidate.o
      order == CHOOSE f \in [1..Cardinality(keys) -> keys] :
                 \A i, j \in 1..Cardinality(keys) : f[i] = f[j] => i = j
  IN IF candidate.k = "str" THEN <<candidate>>
     ELSE IF IsArray(candidate) THEN candidate.o
     ELSE IF candidate.k = "obj"
          THEN [i \in 1..Cardinality(keys) |-> candidate.o[order[i]]]
     ELSE << >>

\* candidateArrays of extractImages
ImageCandidates(listing) ==
  <<Get(listing, "images"), Get(listing, "photos"), Get(listing, "media"),
    Get(listing, "gallery"),
    OptGet(Get(listing, "property"), "photos"),
    OptGet(Get(listing, "property"), "images"),
    OptGet(Get(listing, "property"), "media"),
    OptGet(OptGet(Get(listing, "property"), "photo"), "highResPaths"),
    OptGet(OptGet(Get(listing, "property"), "photo"), "lowResPaths"),
    OptGet(OptGet(Get(listing, "property"), "photo"), "url")>>

\* extractImages(listing): the loop over candidateArrays, each candidate's
\* elements handed to addImage, then Array.from(imageSet)
extractImages(listing) ==
  LET RECURSIVE AddImages(_, _)
      AddImages(imageSet, urls) ==
        IF urls = << >> THEN imageSet
        ELSE AddImages(addImage(imageSet, Head(urls)), Tail(urls))
      RECURSIVE ImagesLoop(_, _)
      ImagesLoop(imageSet, candidates) ==
        IF candidates = << >> THEN imageSet
        ELSE ImagesLoop(AddImages(imageSet, CandidateElements(Head(candidates))),
                        Tail(candidates))
  IN ImagesLoop(<< >>, ImageCandidates(listing))

\* pushAgent(agent) on the array agents; an agent is
\* [name, phone, email, brokerage, title]
pushAgent(agents, agent) ==
  IF ~Truthy(agent) THEN agents
  ELSE LET a ==
             [name |-> cleanString(OrChain(<<Get(agent, "name"),
                                             Get(agent, "fullName"),
                                             Get(agent, "agentName"),
                                             Get(agent, "agent"),
                                             Get(agent, "contactName")>>)),
              phone |-> cleanString(OrChain(<<Get(agent, "phone"),
                                              Get(agent, "telephone"),
                                              Get(agent, "phoneNumber"),
                                              Get(agent, "contactPhone")>>)),
              email |-> cleanString(OrChain(<<Get(agent, "email"),
                                              Get(agent, "contactEmail")>>)),
              brokerage |-> cleanString(OrChain(<<Get(agent, "brokerage"),
                                                  Get(agent, "office"),
                                                  Get(agent, "officeName"),
                                                  Get(agent, "company"),
                                                  Get(agent, "broker")>>)),
              title |-> cleanString(OrChain(<<Get(agent, "title"),
                                              Get(agent, "position"),
                                              Get(agent, "role")>>))]
       IN IF Truthy(OrChain(<<a.name, a.phone, a.email, a.brokerage>>))
          THEN Append(agents, a)
          ELSE agents

\* candidateCollections of extractAgents
AgentCandidates(listing) ==
  <<Get(listing, "agents"), Get(listing, "agent"),
    OptGet(Get(listing, "property"), "agents"),
    OptGet(Get(listing, "property"), "agent"),
    OptGet(Get(listing, "property"), "representatives"),
    Get(listing, "contact"), Get(listing, "representatives"),
    OptGet(Get(listing, "brokerage"), "agents"),
    OptGet(Get(listing, "office"), "agents")>>

\* the loop of extractAgents over candidateCollections
RECURSIVE AgentsLoop(_, _)
AgentsLoop(agents, candidates) ==
  IF candidates = << >> THEN agents
  ELSE LET RECURSIVE PushAgents(_, _)
           PushAgents(pushed, collection) ==
             IF collection = << >> THEN pushed
             ELSE PushAgents(pushAgent(pushed, Head(collection)),
                             Tail(collection))
           collection == Head(candidates)
       IN AgentsLoop(IF IsArray(collection) THEN PushAgents(agents, collection.o)
                     ELSE IF collection.k = "obj" THEN pushAgent(agents, collection)
                     ELSE agents,
                     Tail(candidates))

\* deduplicateAgents: [threw, agents]; KeySource is the operand of
\* .toLowerCase(), and the call throws a TypeError when that operand is not a
\* string (it has no toLowerCase method)
deduplicateAgents(agents) ==
  LET KeySource(agent) ==
        OrChain(<<agent.name, agent.email, agent.phone, agent.brokerage,
                  Str(<< >>)>>)
      RECURSIVE Loop(_, _)
      Loop(rest, unique) ==
        IF rest = << >> THEN unique
        ELSE LET key == Str(toLowerCase(KeySource(Head(rest)).s))
             IN IF ~MapHas(unique, key)
                THEN Loop(Tail(rest),
                          Append(unique, [key |-> key, value |-> Head(rest)]))
                ELSE Loop(Tail(rest), unique)
      bad == { i \in DOMAIN agents : KeySource(agents[i]).k # "str" }
  IN IF bad # {} THEN [threw |-> TRUE, agents |-> << >>]
     ELSE [threw |-> FALSE, agents |-> MapValues(Loop(agents, << >>))]

extractAgents(listing) ==
  LET agents == AgentsLoop(<< >>, AgentCandidates(listing))
      fallbackBrokerage ==
        cleanString(OrChain(<<Get(listing, "brokerage"), Get(listing, "office"),
                              Get(listing, "officeName"), Get(listing, "company")>>))
  IN deduplicateAgents(
       IF agents = << >> /\ Truthy(fallbackBrokerage)
       THEN <<[name |-> Null, phone |-> Null, email |-> Null,
               brokerage |-> fallbackBrokerage, title |-> Null]>>
       ELSE agents)

\* formatAddress(location, raw)
formatAddressOf(location, raw) ==
  IF Truthy(Get(raw, "addressText")) THEN cleanString(Get(raw, "addressText"))
  ELSE LET parts ==
             <<OrChain(<<Get(location, "addressLine1"), Get(location, "address1"),
                         Get(location, "streetAddress"), Get(location, "line1")>>),
               OrChain(<<Get(location, "addressLine2"), Get(location, "address2"),
                         Get(location, "streetAddress2"), Get(location, "line2")>>),
               OrChain(<<Get(location, "city"), Get(location, "municipality")>>),
               OrChain(<<Get(location, "province"), Get(location, "state")>>),
               OrChain(<<Get(location, "postalCode"),
                         Get(location, "postal_code")>>)>>
           cleaned == SelectSeq([i \in DOMAIN parts |-> cleanString(parts[i])],
                                Truthy)
       IN IF JoinCommaSpace(cleaned) # << >> THEN Str(JoinCommaSpace(cleaned))
          ELSE Null

\* the listing of a raw record that is not an object (normalizeListing
\* returns null) or whose normalization threw
NoRecord(kind) ==
  [kind |-> kind, id |-> Null, mlsNumber |-> Null, address |-> Null,
   city |-> Null, price |-> Null, priceFormatted |-> Null,
   bedrooms |-> Null, bathrooms |-> Null, squareFeet |-> Null,
   lotSize |-> Null, lotSizeText |-> Null, yearBuilt |-> Null,
   listingUrl |-> Null, images |-> << >>, agents |-> << >>,
   coordinates |-> Null, lastUpdated |-> Null]

\* normalizeListing on a raw record of any shape: kind is "null" when it
\* returns null, "threw" when it throws, "listing" otherwise
normalizeListingRecord(raw) ==
  IF ~Truthy(raw) \/ TypeOf(raw) # "object" THEN NoRecord("null")
  ELSE
    LET Build(property, location, price, features, agents) ==
          IF agents.threw THEN NoRecord("threw")
          ELSE
            [kind |-> "listing",
             id |-> OrChain(<<Get(raw, "id"), Get(raw, "listingId"),
                              Get(raw, "mlsId"), Get(raw, "mlsNumber"),
                              OptGet(property, "mlsNumber"), OptGet(property, "id"),
                              Null>>),
             mlsNumber |-> cleanString(OrChain(<<Get(raw, "mlsNumber"),
                                                 Get(raw, "mlsId"),
                                                 OptGet(property, "mlsNumber"),
                                                 OptGet(property, "mlsId"),
                                                 Get(raw, "listingId")>>)),
             address |-> formatAddressOf(location, raw),
             city |-> cleanString(OrChain(<<Get(location, "city"),
                                            Get(location, "municipality"),
                                            Get(raw, "city"),
                                            Get(raw, "municipality")>>)),
             price |-> price,
             priceFormatted |->
               IF price.k # "null" THEN formatPrice(price)
               ELSE cleanString(OrChain(<<Get(raw, "displayPrice"),
                                          Get(raw, "priceFormatted"),
                                          Get(raw, "priceLabel")>>)),
             bedrooms |-> features.bedrooms,
             bathrooms |-> features.bathrooms,
             squareFeet |-> features.squareFeet,
             lotSize |-> features.lotSize,
             lotSizeText |-> features.lotSizeText,
             yearBuilt |-> features.yearBuilt,
             listingUrl |-> ensureAbsoluteUrl(OrChain(<<Get(raw, "url"),
                                                        Get(raw, "detailUrl"),
                                                        Get(raw, "detailPageUrl"),
                                                        Get(raw, "permalink"),
                                                        OptGet(property, "url")>>)),
             images |-> extractImages(raw),
             agents |-> agents.agents,
             coordinates |-> extractCoordinates(raw),
             lastUpdated |-> OrChain(<<Get(raw, "lastUpdated"), Get(raw, "updated"),
                                       Get(raw, "lastUpdatedAt"), Null>>)]
        Located(property, location) ==
          Build(property, location,
                  parsePrice(OrChain(<<Get(raw, "price"), Get(raw, "priceValue"),
                                       OptGet(property, "price"),
                                       OptGet(property, "priceValue")>>)),
                  extractFeatures(raw), extractAgents(raw))
        Normalize(property) ==
          Located(property,
                  OrChain(<<Get(raw, "location"), Get(raw, "address"),
                            OptGet(property, "address"),
                            OptGet(property, "location"),
                            Get(raw, "propertyLocation"), EmptyObject>>))
    IN Normalize(Get(raw, "property"))

normalizeFallbackAgents(item) ==
  LET agentName == cleanString(Get(item, "agentName"))
      agentPhone == cleanString(Get(item, "agentPhone"))
      brokerage == cleanString(Get(item, "brokerage"))
  IN IF ~Truthy(agentName) /\ ~Truthy(agentPhone) /\ ~Truthy(brokerage)
     THEN << >>
     ELSE <<[name |-> agentName, phone |-> agentPhone, email |-> Null,
             brokerage |-> brokerage, title |-> Null]>>

\* normalizeFallbackListing on the item page.evaluate built for a card:
\* every field of the item is a string or null
normalizeFallbackRecord(item) ==
  IF ~Truthy(item) \/ ~Truthy(Get(item, "address")) THEN NoRecord("null")
  ELSE
    LET priceValue == parsePrice(Get(item, "priceText"))
    IN [NoRecord("listing") EXCEPT
          !.address = cleanString(Get(item, "address")),
          !.city = extractCityFromAddress(Get(item, "address")),
          !.price = priceValue,
          !.priceFormatted = IF priceValue.k # "null" THEN formatPrice(priceValue)
                             ELSE Get(item, "priceText"),
          !.bedrooms = extractNumber(Get(item, "bedsText")),
          !.bathrooms = extractNumber(Get(item, "bathsText")),
          !.squareFeet = extractNumber(Get(item, "sqftText")),
          !.listingUrl = ensureAbsoluteUrl(Get(item, "listingUrl")),
          !.images = IF Truthy(Get(item, "image"))
                     THEN <<ensureAbsoluteUrl(Get(item, "image"))>>
                     ELSE << >>,
          !.agents = normalizeFallbackAgents(item)]

\* ------------------------------------------------------------------------
\* Property store: normalizer and statistics
\* ------------------------------------------------------------------------
toNumber(value) ==
  IF value.k \in {"null", "undef"} THEN Null
  ELSE IF TypeOf(value) = "number"
       THEN (IF value.k = "num" THEN value ELSE Null)
  ELSE IF value.k = "str"
       THEN (IF KeepNumeric(value.s) = << >> THEN Null
             ELSE NumberInString(value.s))
  ELSE Null

getPriceFromProperty(raw) ==
  LET RECURSIVE FirstNumber(_)
      Pick(numeric, others) ==
        IF numeric.k # "null" THEN numeric ELSE FirstNumber(others)
      FirstNumber(candidates) ==
        IF candidates = << >> THEN Null
        ELSE Pick(toNumber(Head(candidates)), Tail(candidates))
  IN FirstNumber(<<Get(raw, "price"), Get(raw, "listPrice"),
                   Get(raw, "priceValue"), Get(raw, "priceAmount"),
                   Get(raw, "originalPrice"), Get(raw, "expectedPrice"),
                   Get(raw, "minimumPrice")>>)

\* the result of the store's normalizers for an entry that is not an object
NoProperty ==
  [kind |-> "null", id |-> Null, status |-> Null, price |-> Null,
   priceFormatted |-> Null, address |-> Null, featured |-> False,
   openHouse |-> False, daysOnMarket |-> Null]

\* ensurePropertyShape(property), projected on the fields the store's
\* statistics, cache and identity rely on; random is the text
\* Math.random().toString(36).slice(2, 10) yields if it is drawn
ensurePropertyShape(property, random) ==
  IF ~Truthy(property) \/ TypeOf(property) # "object" THEN NoProperty
  ELSE
    LET Shape(idCandidate, price) ==
          [kind |-> "property",
           id |-> IF Truthy(idCandidate) /\ trim(ToStr(idCandidate)) # << >>
                  THEN Str(ToStr(idCandidate))
                  ELSE Str(<<"p", "r", "o", "p", "e", "r", "t", "y", "-">> \o random),
           status |-> Or(Get(property, "status"),
                         Str(<<"A", "c", "t", "i", "v", "e">>)),
           price |-> price,
           priceFormatted |->
             IF price.k = "num"
             THEN Nullish(Get(property, "priceFormatted"), CurrencyFormat(price))
             ELSE Get(property, "priceFormatted"),
           address |->
             IF /\ Get(property, "address").k = "str"
                /\ trim(Get(property, "address").s) # << >>
             THEN Str(trim(Get(property, "address").s))
             ELSE Null,
           featured |-> IF Truthy(Get(property, "featured")) THEN True ELSE False,
           openHouse |-> IF Truthy(Get(property, "openHouse")) THEN True ELSE False,
           daysOnMarket |->
             Nullish(toNumber(OptGet(Get(property, "metrics"), "daysOnMarket")),
                     Num(<<"0">>))]
        Priced(parsed) ==
          IF parsed.k # "null" THEN parsed ELSE getPriceFromProperty(property)
    IN Shape(NullishChain(<<Get(property, "id"), Get(property, "mlsNumber"),
                            Get(property, "listingId"), Get(property, "mlsId"),
                            Get(property, "propertyId"),
                            Get(property, "listingUrl"),
                            Get(property, "address")>>),
             Priced(toNumber(Get(property, "price"))))

normalizeProperty(raw, random) ==
  IF ~Truthy(raw) \/ TypeOf(raw) # "object" THEN NoProperty
  ELSE ensurePropertyShape(
         Obj([id |-> OrChain(<<Get(raw, "id"), Get(raw, "mlsNumber"),
                               Get(raw, "listingId"), Get(raw, "mlsId"),
                               OptGet(Get(raw, "property"), "id"),
                               OptGet(Get(raw, "property"), "mlsNumber"),
                               Get(raw, "listingUrl"), Get(raw, "address"),
                               Null>>),
              status |-> OrChain(<<Get(raw, "status"), Get(raw, "listingStatus"),
                                   Get(raw, "saleStatus"),
                                   Str(<<"A", "c", "t", "i", "v", "e">>)>>),
              price |-> getPriceFromProperty(raw),
              priceFormatted |-> OrChain(<<Get(raw, "priceFormatted"),
                                           Get(raw, "priceText"),
                                           Get(raw, "displayPrice"), Null>>),
              address |-> NullishChain(<<Get(raw, "address"),
                                         OptGet(Get(raw, "location"), "address"),
                                         Null>>),
              featured |-> NullishChain(<<Get(raw, "featured"),
                                          Get(raw, "isFeatured"), False>>),
              openHouse |-> NullishChain(<<Get(raw, "openHouse"),
                                           Get(raw, "hasOpenHouse"), False>>),
              metrics |-> Obj([daysOnMarket |->
                NullishChain(<<toNumber(Get(Nullish(Get(raw, "metrics"),
                                                    EmptyObject),
                                            "daysOnMarket")),
                               toNumber(Get(raw, "daysOnMarket")),
                               toNumber(Get(raw, "dom")),
                               Num(<<"0">>)>>)])]),
         random)

\* prepareProperties(entries) when the normalizer draws the i-th random
\* text for the i-th entry
prepareProperties(entries, randoms) ==
  IF ~IsArray(entries) THEN << >>
  ELSE SelectSeq([i \in DOMAIN entries.o |->
                    normalizeProperty(entries.o[i], randoms[i])],
                 LAMBDA entry : entry.kind # "null")

defaultStatistics ==
  [total |-> 0, active |-> 0, pending |-> 0, sold |-> 0, featured |-> 0,
   openHouses |-> 0, averagePrice |-> 0, averageDaysOnMarket |-> 0]

\* computeStatistics(properties) for properties whose status is a string and
\* whose prices and days on market are whole numbers; Math.round(sum / count)
\* is the quotient rounded half up
computeStatistics(properties) ==
  IF properties = << >> THEN defaultStatistics
  ELSE
    LET RECURSIVE NumeralValue(_)
        NumeralValue(chars) ==
          IF chars = << >> THEN 0
          ELSE IF Head(chars) = "-" THEN 0 - NumeralValue(Tail(chars))
          ELSE 10 * NumeralValue(SubSeq(chars, 1, Len(chars) - 1))
               + DigitValue(chars[Len(chars)])
        RECURSIVE SumTo(_, _)
        SumTo(f, k) == IF k = 0 THEN 0 ELSE f[k] + SumTo(f, k - 1)
        RoundedAverage(sum, count) == (2 * sum + count) \div (2 * count)
        StatusIs(property, name) ==
          toLowerCase(Nullish(property.status,
                              Str(<<"A", "c", "t", "i", "v", "e">>)).s) = name
        Count(Test(_)) ==
          Cardinality({ i \in DOMAIN properties : Test(properties[i]) })
        Numeral(numeric) ==
          IF numeric.k = "null" THEN 0 ELSE NumeralValue(numeric.s)
        Statistics(n, priced, timed) ==
          [total |-> n,
           active |-> Count(LAMBDA p : StatusIs(p, <<"a", "c", "t", "i", "v", "e">>)),
           pending |-> Count(LAMBDA p : StatusIs(p, <<"p", "e", "n", "d", "i", "n", "g">>)),
           sold |-> Count(LAMBDA p : StatusIs(p, <<"s", "o", "l", "d">>)),
           featured |-> Count(LAMBDA p : Truthy(p.featured)),
           openHouses |-> Count(LAMBDA p : Truthy(p.openHouse)),
           averagePrice |->
             IF priced # {} THEN
             RoundedAverage(
               SumTo([i \in 1..n |->
                        IF i \in priced
                        THEN NumeralValue(properties[i].price.s) ELSE 0], n),
               Cardinality(priced)) ELSE 0,
           averageDaysOnMarket |->
             IF timed # {} THEN
             RoundedAverage(
               SumTo([i \in 1..n |->
                        Numeral(toNumber(properties[i].daysOnMarket))], n),
               Cardinality(timed)) ELSE 0]
    IN Statistics(Len(properties),
                  { i \in DOMAIN properties : properties[i].price.k = "num" },
                  { i \in DOMAIN properties :
                      toNumber(properties[i].daysOnMarket).k # "null" })

\* JSON.parse(JSON.stringify(property)) of a property of the store: a
\* non-finite number is written as null and an undefined property is left out
PropertyAsJson(p) ==
  LET Json(v) == IF v.k \in {"nan", "inf"} THEN Null ELSE v
      fields == [id |-> Json(p.id), status |-> Json(p.status),
                 price |-> Json(p.price),
                 priceFormatted |-> Json(p.priceFormatted),
                 address |-> Json(p.address), featured |-> Json(p.featured),
                 openHouse |-> Json(p.openHouse),
                 metrics |-> Obj([daysOnMarket |-> Json(p.daysOnMarket)])]
      kept == { key \in DOMAIN fields : fields[key].k # "undef" }
  IN Obj([key \in kept |-> fields[key]])

\* ------------------------------------------------------------------------
\* Dataset polling constants
\* ------------------------------------------------------------------------
PollIntervalMs == 5000
\* unit of time of the model: half a poll interval
TickMs == PollIntervalMs \div 2
\* times a dataset request may take
PollLatencies == { t * TickMs : t \in 0..PollLatencyTicks }
DefaultTimeoutMs == 120000
NoTimeoutOption == -1
\* values of options.datasetTimeoutMs (NoTimeoutOption: not given)
DatasetTimeoutOptions ==
  {NoTimeoutOption, 0, PollIntervalMs, 2 * PollIntervalMs + TickMs}

\* ------------------------------------------------------------------------
\* State
\* ------------------------------------------------------------------------
VARIABLES
  \* -- one run of scrapeWindsorEssexProperties(options) --
  token,        \* TRUE iff an API credential is configured
  timeoutMs,    \* parameter timeoutMs of waitForDatasetReady (0 before the call)
  pc,           \* position of the run (the await it is suspended at)
  status,       \* "pending", "resolved" or "rejected"
  result,       \* the array the run resolved with
  trace,        \* acquisition states entered so far
  primary,      \* outcome of the primary request
  actorCalled,  \* the hosted-actor call was issued
  datasetRead,  \* a dataset read (listItems) was issued
  dataset,      \* items of the run's default dataset
  elapsed,      \* Date.now() - start inside waitForDatasetReady (0 outside)
  pollStart,    \* elapsed when the last poll was issued (-1: none)
  lastPoll,     \* outcome of the last poll
  timedOut,     \* the readiness timeout warning was logged
  items,        \* items collected by collectDatasetItems
  via,          \* why the fallback was entered ("none": not entered)
  urlIdx,       \* index of the fallback URL being scraped
  results,      \* results array of scrapeWithPuppeteerFallback
  outcomes,     \* per URL scraped so far: where it threw, what it returned
  launched,     \* browsers launched so far
  closed,       \* browsers closed so far
  scrapeErr,    \* customScrapeRealtor has an exception pending in `finally`
  scraped,      \* value customScrapeRealtor is about to return
  \* -- one call of deduplicateListings --
  dIn,    \* input array handed to deduplicateListings
  dOut,   \* array it returned
  dPc,    \* "ready" before the call, "done" after it
  \* -- calls of a parser or normalizer on one input --
  nFn,    \* the function called ("none": no such call)
  nIn,    \* its argument
  nOut,   \* the values its successive calls returned
  \* -- the client's property store --
  state,     \* the store's state object
  cache,     \* the entry persisted under CACHE_KEY in localStorage
  fetching,  \* calls of fetchProperties awaiting the service
  fetched,   \* calls of fetchProperties made so far
  returned,  \* what the last completed fetchProperties call resolved with
  gens       \* calls of generatePropertyContent: a bag of id, property, position

cfgVars == <<token>>
outVars == <<pc, status, result, trace>>
waitVars == <<timeoutMs, elapsed, pollStart, lastPoll, timedOut>>
primVars == <<primary, actorCalled, datasetRead, dataset, items>>
fbVars == <<via, urlIdx, results, outcomes, launched, closed, scrapeErr, scraped>>
dedupVars == <<dIn, dOut, dPc>>
normVars == <<nFn, nIn, nOut>>
storeVars == <<state, cache, fetching, fetched, returned, gens>>
runVars == <<cfgVars, outVars, waitVars, primVars, fbVars>>
\* the variables the run does not touch
libVars == <<dedupVars, normVars, storeVars>>
vars == <<runVars, libVars>>

\* ------------------------------------------------------------------------
\* Inputs
\* ------------------------------------------------------------------------
\* Items of the hosted dataset: an in-region listing, one with the same MLS
\* number (up to case) out of region, a listing without any key, a non-object
\* item.
RawItems ==
  { RawItem(Str(<<"W", "1">>), Str(<<"/", "a">>), Str(<<"1", " ", "A", ",", " ", "W", "i", "n", "d", "s", "o", "r", ",", " ", "O", "N">>), Str(<<"W", "i", "n", "d", "s", "o", "r">>)),
    RawItem(Str(<<"w", "1">>), Undef, Str(<<"1", " ", "A", ",", " ", "T", "o", "r", "o", "n", "t", "o", ",", " ", "O", "N">>), Str(<<"T", "o", "r", "o", "n", "t", "o">>)),
    RawItem(Undef, Undef, Str(<<" ">>), Str(<<" ", "w", "i", "n", "d", "s", "o", "r", " ">>)),
    NullItem }

\* Property cards of a scraped page: two cards with the same link, one in
\* region (its text needs trimming) and one out of region, and a card
\* without address element.
PageCards ==
  { Card(Str(<<" ", "1", " ", "A", ",", " ", "W", "I", "N", "D", "S", "O", "R", ",", " ", "O", "N">>), Str(<<"/", "a">>)),
    Card(Str(<<"1", " ", "A", ",", " ", "T", "o", "r", "o", "n", "t", "o", ",", " ", "O", "N">>), Str(<<"/", "a">>)),
    Card(Null, Str(<<"/", "b">>)) }

\* Listings the deduplicator is exercised on: keys that differ only in case,
\* equal MLS numbers with different addresses, and listings without any key.
DedupListings ==
  { Listing(Str(<<"W", "1">>), Null, Str(<<"1", " ", "A">>), Str(<<"W">>)),
    Listing(Str(<<"w", "1">>), Null, Str(<<"2", " ", "B">>), Str(<<"T">>)),
    Listing(Null, Str(<<"/", "A">>), Str(<<"1", " ", "A">>), Str(<<"W">>)),
    Listing(Str(<< >>), Str(<<"/", "a">>), Null, Str(<<"T">>)),
    Listing(Null, Null, Str(<<"1", " ", "a">>), Str(<<"W">>)),
    Listing(Str(<< >>), Str(<< >>), Str(<<"1", " ", "A">>), Null),
    Listing(Null, Null, Null, Str(<<"W">>)),
    Listing(Str(<< >>), Str(<< >>), Str(<< >>), Str(<<"T">>)),
    NoListing }

SeqsUpTo(S, n) == UNION { [1..m -> S] : m \in 0..n }

\* no parser or normalizer call is made
NormIdle == nFn = "none" /\ nIn = Undef /\ nOut = << >>

\* defaultFilters, projected on status and featuredOnly
defaultFilters ==
  [status |-> << <<"A", "c", "t", "i", "v", "e">>, <<"P", "e", "n", "d", "i", "n", "g">>, <<"S", "o", "l", "d">> >>,
   featuredOnly |-> FALSE]

\* defaultState; generationStatus and generatedContent are functions of the
\* property ids they hold, error is "null" or the message, lastUpdated and
\* dataSource are JavaScript values
defaultState ==
  [properties |-> << >>, filters |-> defaultFilters,
   statistics |-> defaultStatistics,
   generatedContent |-> << >>, generationStatus |-> << >>,
   isLoading |-> FALSE, loading |-> FALSE, error |-> "null",
   lastUpdated |-> Null, dataSource |-> Null]

\* the store as createPropertyStore() leaves it, with nothing persisted
StoreIdle ==
  /\ state = defaultState /\ cache = [kind |-> "none"]
  /\ fetching = 0 /\ fetched = 0
  /\ returned = [kind |-> "none", value |-> << >>]
  /\ gens = EmptyBag

\* the run's variables while no run is in progress
RunIdle ==
  /\ token = FALSE /\ timeoutMs = 0
  /\ pc = "idle" /\ status = "pending" /\ result = << >> /\ trace = << >>
  /\ primary = "none" /\ actorCalled = FALSE /\ datasetRead = FALSE
  /\ dataset = << >> /\ items = << >>
  /\ elapsed = 0 /\ pollStart = -1 /\ lastPoll = "none" /\ timedOut = FALSE
  /\ via = "none" /\ urlIdx = 0 /\ results = << >> /\ outcomes = << >>
  /\ launched = 0 /\ closed = 0 /\ scrapeErr = "none" /\ scraped = << >>

InitDedup ==
  /\ dIn \in SeqsUpTo(DedupListings, MaxLen)
  /\ dOut = << >>
  /\ dPc = "ready"
  /\ NormIdle /\ StoreIdle
  /\ RunIdle

CallDeduplicate ==
  /\ dPc = "ready"
  /\ dOut' = deduplicateListings(dIn)
  /\ dPc' = "done"
  /\ UNCHANGED <<dIn, runVars, normVars, storeVars>>

NextDedup == CallDeduplicate

SpecDedup == InitDedup /\ [][NextDedup]_vars

\* ------------------------------------------------------------------------
\* Inputs of the parsers and normalizers
\* ------------------------------------------------------------------------
MaxImages == 2       \* most elements of a raw record's images array
MaxAgents == 2       \* most elements of a raw record's agents array
MaxCalls == 2        \* most calls of a function on the same input
MaxPaths == 2        \* most paths in a list given to valueFromPaths

\* strings handed to parsePrice and extractNumber
ParserStrings ==
  { <<"$", "4", "5", "0", ",", "0", "0", "0">>, <<"4", "5", "0", "0", "0", "0">>, <<"3", " ", "b", "e", "d">>, <<"3">>, <<"1", ",", "8", "5", "0", " ", "s", "q", " ", "f", "t">>, <<"1", "8", "5", "0">>,
    <<"$", "1", ",", "2", "3", "4", ".", "5", "0">>, <<"1", "2", "3", "4", ".", "5", "0">>, <<"1", "2", "3", "4">>, <<" ", "9", "7", "0", " ", "s", "q", " ", "f", "t", " ">>, <<"9", "7", "0">>,
    <<"1", ",", "2", "3", "4", ",", "5", "6", "7">>, <<"$", "1", ",", "2", "5", "0", ",", "0", "0", "0">>, <<"1", "2", "5", "0", "0", "0", "0">>, <<"-", "5">>, <<"0">>, <<"0", "0", "7">>,
    <<"2", ".", "5", "0", " ", "b", "a", "t", "h", "s">>, << >>, <<"N", "/", "A">>, <<"-">>, <<"C", "a", "l", "l", " ", "f", "o", "r", " ", "p", "r", "i", "c", "e">> }

\* the flat record of the end-to-end scenario
ScenarioRecord ==
  Obj([mlsNumber |-> Str(<<"W", "1", "2", "3">>), price |-> Str(<<"$", "4", "5", "0", ",", "0", "0", "0">>),
       address |-> Str(<<"1", "0", " ", "M", "a", "i", "n", " ", "S", "t">>), city |-> Str(<<"W", "i", "n", "d", "s", "o", "r">>),
       bedrooms |-> Str(<<"3", " ", "b", "e", "d">>), images |-> Arr(<<Str(<<"/", "p", "h", "o", "t", "o", "1", ".", "j", "p", "g">>)>>)])

\* values handed to normalizeListing: raw records of the kinds named below,
\* and values that are no records
NormalizeInputs ==
  LET \* raw records in which one numeric field holds each of the values
      \* a field may hold
      NumericRecords ==
        LET NumericValues ==
              { Undef, Null, Str(<<"$", "4", "5", "0", ",", "0", "0", "0">>), Str(<<"3", " ", "b", "e", "d">>), Str(<<"N", "/", "A">>), Str(<< >>), Str(<<"1", ",", "2", "3", "4", ",", "5", "6", "7">>),
              Num(<<"4", "5", "0", "0", "0", "0">>), Num(<<"0">>), Num(<<"3", ".", "5">>), Num(<<"-", "1">>), NaN, Infinity, NegInfinity,
              True, False, EmptyObject,
              Obj([amount |-> Str(<<"$", "1", ",", "2", "3", "4", ".", "5", "0">>)]), Obj([amount |-> Infinity]),
              Obj([amount |-> Num(<<"0">>), value |-> Num(<<"7">>)]), Arr(<<Num(<<"5">>)>>) }
        IN { Obj(key :> v) :
               key \in {"price", "priceValue", "bedrooms", "bathrooms", "area", "lotSize"},
               v \in NumericValues }
           \cup { Obj([building |-> Obj([builtYear |-> v])]) : v \in NumericValues }
           \cup { Obj([details |-> Arr(<<Obj([label |-> Str(<<"B", "e", "d", "r", "o", "o", "m", "s">>), value |-> v])>>)]) :
                    v \in NumericValues }
      \* raw records with a price and a display string of the source
      PricedRecords ==
        { Obj([price |-> v, displayPrice |-> d]) :
            v \in {Undef, Str(<<"$", "4", "5", "0", ",", "0", "0", "0">>), Str(<<"C", "a", "l", "l", " ", "f", "o", "r", " ", "p", "r", "i", "c", "e">>), Num(<<"1", "2", "3", "4", ".", "5">>)},
            d \in {Undef, Str(<<" ", "C", "o", "n", "t", "a", "c", "t", " ", "a", "g", "e", "n", "t", " ">>), Str(<<"$", "1">>)} }
      \* raw records with and without identity and address
      AnchorRecords ==
        { EmptyObject,
          Obj([city |-> Str(<<"W", "i", "n", "d", "s", "o", "r">>)]),
          Obj([id |-> Str(<<"a", "1">>)]),
          Obj([listingId |-> Num(<<"7">>)]),
          Obj([listingId |-> Num(<<"7">>), mlsNumber |-> Str(<<"W", "1">>)]),
          Obj([propertyId |-> Str(<<"p", "9">>)]),
          Obj([url |-> Str(<<"/", "a">>)]),
          Obj([addressText |-> Str(<<" ", "1", " ", "A", ",", " ", "W", "i", "n", "d", "s", "o", "r", " ">>)]),
          Obj([address |-> Str(<<"1", "0", " ", "M", "a", "i", "n", " ", "S", "t">>)]),
          Obj([location |-> Obj([addressLine1 |-> Str(<<"1", " ", "A">>), city |-> Str(<<"W", "i", "n", "d", "s", "o", "r">>),
                                 postalCode |-> Str(<<"N", "8", "X">>)])]),
          Obj([address |-> Obj([streetAddress |-> Str(<<"2", " ", "B">>), province |-> Str(<<"O", "N">>)])]),
          Obj([location |-> Obj([city |-> Str(<<" ">>)])]),
          Obj([addressText |-> Str(<<"9", " ", "Z">>),
               location |-> Obj([addressLine1 |-> Str(<<"1", " ", "A">>), city |-> Str(<<"W", "i", "n", "d", "s", "o", "r">>)])]),
          Obj([addressText |-> Str(<<" ">>),
               location |-> Obj([addressLine1 |-> Str(<<"1", " ", "A">>), city |-> Str(<<"W", "i", "n", "d", "s", "o", "r">>)])]),
          Obj([property |-> Obj([address |-> Obj([line1 |-> Str(<<"3", " ", "C">>), state |-> Str(<<"O", "N">>),
                                                  postal_code |-> Str(<<"N", "9", "A">>)])])]),
          ScenarioRecord }
      \* raw records with coordinates under the accepted spellings and locations
      CoordinateRecords ==
        LET CoordinateValues ==
              { Undef, Null, Num(<<"4", "2", ".", "3">>), Num(<<"0">>), Str(<<"-", "8", "3", ".", "0", " ", "W">>), Str(<< >>), Str(<<"n", "/", "a">>), NaN }
        IN { Obj(place :> Obj((latKey :> lat) @@ (lngKey :> lng))) :
               place \in {"coordinates", "location", "geo"},
               latKey \in {"lat", "latitude"}, lngKey \in {"lng", "lon", "longitude"},
               lat \in CoordinateValues, lng \in {Undef, Num(<<"-", "8", "3">>), Str(<<"x">>)} }
           \cup { Obj([property |-> Obj([location |-> Obj([lat |-> lat, lon |-> lng])])]) :
                    lat \in CoordinateValues, lng \in {Undef, Num(<<"-", "8", "3">>)} }
           \cup { Obj([coordinates |-> Obj([lat |-> Num(<<"4", "2", ".", "3">>)]),
                       geo |-> Obj([longitude |-> lng])]) : lng \in {Undef, Num(<<"-", "8", "3">>)} }
           \cup { Obj([coordinates |-> Str(<<"4", "2", ".", "3", ",", "-", "8", "3">>)]) }
      \* raw records with images arrays and other image candidates
      ImageRecords ==
        LET ImageValues ==
              { Str(<<"/", "a", ".", "j", "p", "g">>), Str(<<"a", ".", "j", "p", "g">>), Str(<<" ", "h", "t", "t", "p", "s", ":", "/", "/", "x", ".", "c", "a", "/", "a", ".", "j", "p", "g", " ">>), Str(<<"h", "t", "t", "p", "s", ":", "/", "/", "x", ".", "c", "a", "/", "a", ".", "j", "p", "g">>),
              Str(<<"h", "t", "t", "p", "s", ":", "/", "/", "w", "w", "w", ".", "r", "e", "a", "l", "t", "o", "r", ".", "c", "a", "/", "a", ".", "j", "p", "g">>), Str(<<" ">>), Num(<<"5">>) }
        IN { Obj([images |-> Arr(urls)]) : urls \in SeqsUpTo(ImageValues, MaxImages) }
           \cup { Obj([images |-> Arr(<<u>>), photos |-> p,
                       property |-> Obj([photo |-> Obj([url |-> Str(<<"a", ".", "j", "p", "g">>)])])]) :
                    u \in ImageValues, p \in {Str(<<"/", "a", ".", "j", "p", "g">>), Obj([main |-> Str(<<"/", "b", ".", "j", "p", "g">>)])} }
      \* raw records with agents arrays and other agent candidates
      AgentRecords ==
        LET AgentValues ==
              { Obj([name |-> Str(<<"B", "o", "b">>), phone |-> Str(<<"5", "5", "5">>)]),
              Obj([fullName |-> Str(<<" ", "b", "o", "b", " ">>), email |-> Str(<<"b", "@", "x", ".", "c", "a">>)]),
              Obj([email |-> Str(<<"B", "O", "B">>)]),
              Obj([title |-> Str(<<"B", "r", "o", "k", "e", "r">>)]),
              Obj([phone |-> Num(<<"5", "1", "9", "5", "5", "5", "1", "2", "3", "4">>)]),
              Str(<<"B", "o", "b">>), Null }
        IN { Obj([agents |-> Arr(agents), brokerage |-> b]) :
               agents \in SeqsUpTo(AgentValues, MaxAgents), b \in {Undef, Str(<<" ", "R", "e", "M", "a", "x", " ">>)} }
           \cup { Obj([agent |-> a, contact |-> Obj([contactName |-> Str(<<"B", "O", "B">>)])]) :
                    a \in AgentValues }
      \* raw records with a feature both under a candidate path and in a
      \* detail entry
      FeatureRecords ==
        LET PathValues ==
              { Undef, Num(<<"0">>), Num(<<"2">>), Str(<<"N", "/", "A">>), Str(<<"3", " ", "b", "e", "d">>) }
            DetailValues == { Num(<<"4">>), Str(<<"1", "9", "9", "0", " ", "(", "e", "s", "t", ")">>) }
        IN { Obj([bedrooms |-> v,
                  details |-> Arr(<<Obj([label |-> Str(<<"B", "e", "d", "r", "o", "o", "m", "s">>), value |-> d])>>)]) :
               v \in PathValues, d \in DetailValues }
           \cup { Obj([building |-> Obj([builtYear |-> v]),
                       details |-> Arr(<<Str(<<"B", "u", "i", "l", "t", " ", "1", "9", "9", "0">>)>>)]) :
                    v \in PathValues }
      NonRecords ==
        { Null, Undef, Str(<<"W", "1", "2", "3">>), Num(<<"5">>), False }
  IN NumericRecords \cup PricedRecords \cup AnchorRecords \cup NonRecords
     \cup CoordinateRecords \cup ImageRecords \cup AgentRecords
     \cup FeatureRecords

\* items page.evaluate builds for the cards of a page
FallbackItems ==
  { Obj([address |-> a, priceText |-> p, bedsText |-> b, image |-> i,
         agentName |-> Null, agentPhone |-> Null, brokerage |-> Null,
         listingUrl |-> Null]) :
      a \in {Null, Str(<< >>), Str(<<"1", " ", "A", ",", " ", "W", "i", "n", "d", "s", "o", "r", ",", " ", "O", "N">>)},
      p \in {Null, Str(<<"$", "4", "5", "0", ",", "0", "0", "0">>), Str(<<"$", "1", ",", "2", "5", "0", ",", "0", "0", "0">>), Str(<<"C", "a", "l", "l", " ", "f", "o", "r", " ", "p", "r", "i", "c", "e">>)},
      b \in {Null, Str(<<"3", " ", "b", "e", "d">>), Str(<<"S", "t", "u", "d", "i", "o">>)},
      i \in {Null, Str(<<"/", "a", ".", "j", "p", "g">>)} }

\* entries handed to the store's normalizeProperty
PropertyInputs ==
  { Obj([price |-> p, priceFormatted |-> f, id |-> i, address |-> a]) :
      p \in {Undef, Null, Num(<<"5", "0", "0", "0", "0", "0">>), Str(<<"$", "4", "5", "0", ",", "0", "0", "0">>), Infinity},
      f \in {Undef, Null, Str(<<"C", "a", "l", "l", " ", "f", "o", "r", " ", "p", "r", "i", "c", "e">>), Str(<<"$", "5", "0", "0", ",", "0", "0", "0">>)},
      i \in {Undef, Null, Str(<<"a", "1">>), Str(<<" ">>)},
      a \in {Undef, Str(<<" ", "1", " ", "A", " ">>)} }
  \cup { Null, Str(<<"a", "1">>) }

\* texts Math.random().toString(36).slice(2, 10) may yield
RandomTexts == { <<"k", "3", "x", "9">>, <<"q", "7", "m", "2">> }

\* arguments of valueFromPaths: an object with a nested object, an empty
\* string, a null, a string, a zero and an array (or no object at all),
\* and lists of at most MaxPaths paths, each the sequence of its segments
PathInputs ==
  LET objects ==
        { Obj([a |-> Obj([b |-> Num(<<"3">>)]), c |-> Str(<< >>), d |-> Null,
               e |-> Str(<<"x", "y">>), f |-> Num(<<"0">>),
               g |-> Arr(<<Num(<<"7">>)>>)]),
          Null }
      paths ==
        { <<"a", "b">>, <<"a", "x">>, <<"c">>, <<"d">>, <<"e">>,
          <<"e", "length">>, <<"e", "0">>, <<"f">>, <<"f", "b">>,
          <<"g", "0">>, <<"g", "length">>, <<"z">> }
  IN { [object |-> object, paths |-> list] :
         object \in objects, list \in SeqsUpTo(paths, MaxPaths) }

\* ------------------------------------------------------------------------
\* Calls of the parsers and normalizers on one input
\* ------------------------------------------------------------------------
InitNormalize ==
  /\ nOut = << >>
  /\ \/ nFn \in {"parsePrice", "extractNumber"}
        /\ nIn \in { Str(chars) : chars \in ParserStrings }
     \/ nFn \in {"normalizeListing", "extractCoordinates"}
        /\ nIn \in NormalizeInputs
     \/ nFn = "normalizeFallbackListing" /\ nIn \in FallbackItems
     \/ nFn = "normalizeProperty" /\ nIn \in PropertyInputs
     \/ nFn = "valueFromPaths" /\ nIn \in PathInputs
  /\ dIn = << >> /\ dOut = << >> /\ dPc = "idle"
  /\ RunIdle /\ StoreIdle

\* one call of the function named by nFn on the input nIn: the value it
\* returns is recorded; random is the text Math.random() contributes to the
\* store's normalizer if it is drawn
CallFunction ==
  /\ nFn # "none" /\ Len(nOut) < MaxCalls
  /\ \E random \in RandomTexts :
       nOut' = Append(nOut,
                 CASE nFn = "parsePrice" -> parsePrice(nIn)
                   [] nFn = "extractNumber" -> extractNumber(nIn)
                   [] nFn = "extractCoordinates" -> extractCoordinates(nIn)
                   [] nFn = "normalizeListing" -> normalizeListingRecord(nIn)
                   [] nFn = "normalizeFallbackListing" ->
                        normalizeFallbackRecord(nIn)
                   [] nFn = "normalizeProperty" -> normalizeProperty(nIn, random)
                   [] nFn = "valueFromPaths" ->
                        valueFromPaths(nIn.object, nIn.paths))
  /\ UNCHANGED <<nFn, nIn, runVars, dedupVars, storeVars>>

NextNormalize == CallFunction

SpecNormalize == InitNormalize /\ [][NextNormalize]_vars

\* ------------------------------------------------------------------------
\* Property store: fetchProperties, loadFromCache, filters, generation
\* ------------------------------------------------------------------------
MaxProperties == 2    \* most listings in a payload of the service
MaxFetches == 3       \* most calls of fetchProperties / refreshProperties
MaxGenerations == 2   \* most calls of generatePropertyContent

\* the reading of the clock (one reading: no action compares two)
Now == Str(<<"2", "0", "2", "4", "-", "0", "6", "-", "0", "1">>)

\* the entry persistToCache({properties, lastUpdated, statistics, dataSource})
\* stores: the JSON text of the payload, read back by JSON.parse (whole
\* numbers, strings and null are read back as written)
persistToCache(properties, lastUpdated, statistics, dataSource) ==
  [kind |-> "entry",
   properties |-> Arr([i \in DOMAIN properties |-> PropertyAsJson(properties[i])]),
   lastUpdated |-> lastUpdated, statistics |-> statistics,
   dataSource |-> dataSource]

\* Variant of loadFromCache that restores the properties and leaves the
\* statistics of the store as they are.
loadFromCache_KeepsStatistics(st, entry, randoms) ==
  LET Loaded(properties) ==
        [found |-> TRUE, properties |-> properties,
         state |-> [st EXCEPT !.properties = properties,
                              !.lastUpdated = Nullish(entry.lastUpdated, Null),
                              !.dataSource = Nullish(entry.dataSource, Null),
                              !.isLoading = FALSE, !.loading = FALSE]]
  IN IF entry.kind = "none"
     THEN [found |-> FALSE, properties |-> << >>, state |-> st]
     ELSE Loaded(prepareProperties(entry.properties, randoms))

\* loadFromCache() in the store state st with the persisted entry: whether it
\* returned an object, the properties of that object, and the state it
\* leaves. A persisted entry always carries a statistics object, which is
\* spread over defaultStatistics.
loadFromCache(st, entry, randoms) ==
  LET Loaded(properties) ==
        [found |-> TRUE, properties |-> properties,
         state |-> [st EXCEPT !.properties = properties,
                              !.statistics =
                                [key \in DOMAIN defaultStatistics |->
                                   IF key \in DOMAIN entry.statistics
                                   THEN entry.statistics[key]
                                   ELSE defaultStatistics[key]],
                              !.lastUpdated = Nullish(entry.lastUpdated, Null),
                              !.dataSource = Nullish(entry.dataSource, Null),
                              !.isLoading = FALSE, !.loading = FALSE]]
  IN IF entry.kind = "none"
     THEN [found |-> FALSE, properties |-> << >>, state |-> st]
     ELSE Loaded(prepareProperties(entry.properties, randoms))

\* what the try block of fetchProperties computes from a payload, for each
\* payload. The payloads scrapeWindsorEssexProperties resolves with are the
\* first listings of a feed of three, at most MaxProperties of them; the
\* second listing has no id candidate and is given the id of one random
\* text. lastUpdated is undefined when neither the payload nor its first
\* listing gives it
FetchedPayloads ==
  LET listings ==
        << Obj([id |-> Str(<<"a", "1">>), status |-> Str(<<"A", "c", "t", "i", "v", "e">>), price |-> Num(<<"4", "5", "0", "0", "0", "0">>),
                featured |-> True, daysOnMarket |-> Num(<<"1", "0">>),
                lastUpdated |-> Str(<<"2", "0", "2", "4", "-", "0", "1", "-", "0", "1">>)]),
           Obj([status |-> Str(<<"S", "o", "l", "d">>),
                price |-> Str(<<"$", "3", "0", "0", ",", "0", "0", "1">>), openHouse |-> True, dom |-> Str(<<"7", " ", "d", "a", "y", "s">>)]),
           Obj([mlsNumber |-> Str(<<"W", "2">>), status |-> Str(<<"p", "e", "n", "d", "i", "n", "g">>), priceText |-> Str(<<"C", "a", "l", "l", " ", "f", "o", "r", " ", "p", "r", "i", "c", "e">>)]) >>
      Payloads ==
        { Arr(SubSeq(listings, 1, n)) :
            n \in { m \in 0..MaxProperties : m <= Len(listings) } }
      Fetched(payload, rawProperties, properties) ==
        [properties |-> properties,
         lastUpdated |->
           NullishChain(<<OptGet(payload, "lastUpdated"),
                          IF rawProperties.o = << >> THEN Undef
                          ELSE OptGet(rawProperties.o[1], "lastUpdated")>>),
         statistics |-> computeStatistics(properties),
         dataSource |-> Nullish(OptGet(payload, "source"), Null)]
      random == CHOOSE text \in RandomTexts : TRUE
      Prepared(payload, rawProperties) ==
        Fetched(payload, rawProperties,
                prepareProperties(rawProperties, [i \in 1..3 |-> random]))
  IN { Prepared(payload,
                IF IsArray(payload) THEN payload
                ELSE IF IsArray(OptGet(payload, "properties"))
                     THEN OptGet(payload, "properties")
                ELSE Arr(<< >>)) :
         payload \in Payloads }

\* a session starts with nothing persisted or with the entry an earlier
\* session persisted when the feed had two listings
InitStore ==
  /\ state = defaultState
  /\ cache \in {[kind |-> "none"]}
       \cup { persistToCache(earlier.properties,
                             Nullish(earlier.lastUpdated, Now),
                             earlier.statistics, earlier.dataSource) :
                earlier \in { fetchedPayload \in FetchedPayloads :
                                Len(fetchedPayload.properties) = 2 } }
  /\ fetching = 0 /\ fetched = 0
  /\ returned = [kind |-> "none", value |-> << >>]
  /\ gens = EmptyBag
  /\ dIn = << >> /\ dOut = << >> /\ dPc = "idle"
  /\ NormIdle /\ RunIdle

\* Variant that raises only one of the two loading flags.
FetchProperties_SetsOneFlag ==
  /\ fetched < MaxFetches
  /\ fetched' = fetched + 1 /\ fetching' = fetching + 1
  /\ state' = [state EXCEPT !.isLoading = TRUE, !.error = "null"]
  /\ UNCHANGED <<cache, returned, gens, runVars, dedupVars, normVars>>

\* fetchProperties() / refreshProperties() up to the await of the service
FetchProperties ==
  /\ fetched < MaxFetches
  /\ fetched' = fetched + 1 /\ fetching' = fetching + 1
  /\ state' = [state EXCEPT !.isLoading = TRUE, !.loading = TRUE,
                            !.error = "null"]
  /\ UNCHANGED <<cache, returned, gens, runVars, dedupVars, normVars>>

\* Variant of the success branch that leaves lastUpdated and dataSource of
\* the store as they were.
FetchSucceeds_KeepsLastUpdated ==
  /\ fetching > 0
  /\ \E fetchedPayload \in FetchedPayloads, stored \in BOOLEAN :
       LET properties == fetchedPayload.properties
           lastUpdated == Nullish(fetchedPayload.lastUpdated, Now)
           statistics == fetchedPayload.statistics
           dataSource == fetchedPayload.dataSource
       IN /\ cache' = IF stored
                      THEN persistToCache(properties, lastUpdated, statistics,
                                          dataSource)
                      ELSE cache
          /\ state' = [state EXCEPT !.properties = properties,
                                    !.statistics = statistics,
                                    !.isLoading = FALSE, !.loading = FALSE,
                                    !.error = "null"]
          /\ returned' = [kind |-> "success", value |-> properties]
  /\ fetching' = fetching - 1
  /\ UNCHANGED <<fetched, gens, runVars, dedupVars, normVars>>

\* the service resolved with a payload; now is new Date().toISOString();
\* stored: setItem did not throw (when it throws, the entry persisted before
\* stays)
FetchSucceeds ==
  /\ fetching > 0
  /\ \E fetchedPayload \in FetchedPayloads, stored \in BOOLEAN :
       LET properties == fetchedPayload.properties
           lastUpdated == Nullish(fetchedPayload.lastUpdated, Now)
           statistics == fetchedPayload.statistics
           dataSource == fetchedPayload.dataSource
       IN /\ cache' = IF stored
                      THEN persistToCache(properties, lastUpdated, statistics,
                                          dataSource)
                      ELSE cache
          /\ state' = [state EXCEPT !.properties = properties,
                                    !.statistics = statistics,
                                    !.lastUpdated = lastUpdated,
                                    !.dataSource = dataSource,
                                    !.isLoading = FALSE, !.loading = FALSE,
                                    !.error = "null"]
          /\ returned' = [kind |-> "success", value |-> properties]
  /\ fetching' = fetching - 1
  /\ UNCHANGED <<fetched, gens, runVars, dedupVars, normVars>>

\* Variant of the catch branch that drops the persisted entry.
FetchFails_DropsCache ==
  /\ fetching > 0
  /\ \E random \in RandomTexts,
        errorMessage \in {"Network Error",
                          "Failed to fetch property data. Please try again later."} :
       LET Settle(cached) ==
             IF cached.found /\ cached.properties # << >>
             THEN /\ state' = [cached.state EXCEPT
                                 !.isLoading = FALSE, !.loading = FALSE,
                                 !.error = "Unable to refresh properties. Showing the most recent cached results."]
                  /\ returned' = [kind |-> "cached", value |-> cached.properties]
             ELSE /\ state' = [cached.state EXCEPT
                                 !.properties = << >>,
                                 !.statistics = defaultStatistics,
                                 !.isLoading = FALSE, !.loading = FALSE,
                                 !.lastUpdated = Null, !.dataSource = Null,
                                 !.error = errorMessage]
                  /\ returned' = [kind |-> "failed", value |-> << >>]
       IN Settle(loadFromCache(state, cache, [i \in 1..3 |-> random]))
  /\ fetching' = fetching - 1
  /\ cache' = [kind |-> "none"]
  /\ UNCHANGED <<fetched, gens, runVars, dedupVars, normVars>>

\* the service rejected with fetchError: the catch branch; errorMessage is
\* safeString(fetchError?.response?.data?.error) || fetchError?.message ||
\* the default message
FetchFails ==
  /\ fetching > 0
  /\ \E random \in RandomTexts,
        errorMessage \in {"Network Error",
                          "Failed to fetch property data. Please try again later."} :
       LET Settle(cached) ==
             IF cached.found /\ cached.properties # << >>
             THEN /\ state' = [cached.state EXCEPT
                                 !.isLoading = FALSE, !.loading = FALSE,
                                 !.error = "Unable to refresh properties. Showing the most recent cached results."]
                  /\ returned' = [kind |-> "cached", value |-> cached.properties]
             ELSE /\ state' = [cached.state EXCEPT
                                 !.properties = << >>,
                                 !.statistics = defaultStatistics,
                                 !.isLoading = FALSE, !.loading = FALSE,
                                 !.lastUpdated = Null, !.dataSource = Null,
                                 !.error = errorMessage]
                  /\ returned' = [kind |-> "failed", value |-> << >>]
       IN Settle(loadFromCache(state, cache, [i \in 1..3 |-> random]))
  /\ fetching' = fetching - 1
  /\ UNCHANGED <<cache, fetched, gens, runVars, dedupVars, normVars>>

\* loadFromCache() called on the store when an entry is persisted (without
\* an entry it returns null and leaves the state as it is)
LoadFromCache ==
  /\ cache.kind = "entry"
  /\ \E random \in RandomTexts :
       state' = loadFromCache(state, cache, [i \in 1..3 |-> random]).state
  /\ UNCHANGED <<cache, fetching, fetched, returned, gens,
                 runVars, dedupVars, normVars>>

\* Variant that removes the status even when it is the only one left.
toggleStatusFilter_AllowsEmpty(st, toggled) ==
  LET RECURSIVE SetOf(_)
      SetOf(list) ==
        IF list = << >> THEN << >>
        ELSE LET front == SetOf(SubSeq(list, 1, Len(list) - 1))
             IN IF \E i \in DOMAIN front : front[i] = list[Len(list)]
                THEN front ELSE Append(front, list[Len(list)])
      Toggle(nextStatuses, normalizedStatus) ==
        IF \E i \in DOMAIN nextStatuses : nextStatuses[i] = normalizedStatus
        THEN SelectSeq(nextStatuses, LAMBDA x : x # normalizedStatus)
        ELSE Append(nextStatuses, normalizedStatus)
  IN IF ~Truthy(toggled) THEN st
     ELSE [st EXCEPT !.filters.status = Toggle(SetOf(@), ToStr(toggled))]

\* the state toggleStatusFilter(status) leaves, toggled being its argument:
\* the state as it is for a falsy one; else the Set of the current statuses
\* (insertion order, duplicates dropped) with `${status}` deleted if it has
\* it (and added back if the Set is then empty), added if not
toggleStatusFilter(st, toggled) ==
  LET RECURSIVE SetOf(_)
      SetOf(list) ==
        IF list = << >> THEN << >>
        ELSE LET front == SetOf(SubSeq(list, 1, Len(list) - 1))
             IN IF \E i \in DOMAIN front : front[i] = list[Len(list)]
                THEN front ELSE Append(front, list[Len(list)])
      Toggle(nextStatuses, normalizedStatus) ==
        IF \E i \in DOMAIN nextStatuses : nextStatuses[i] = normalizedStatus
        THEN (IF SelectSeq(nextStatuses, LAMBDA x : x # normalizedStatus) = << >>
              THEN <<normalizedStatus>>
              ELSE SelectSeq(nextStatuses, LAMBDA x : x # normalizedStatus))
        ELSE Append(nextStatuses, normalizedStatus)
  IN IF ~Truthy(toggled) THEN st
     ELSE [st EXCEPT !.filters.status = Toggle(SetOf(@), ToStr(toggled))]

\* a call of toggleStatusFilter with a status the filter bar offers, with
\* other strings and numbers, and with falsy values
ToggleStatusFilter ==
  /\ \E toggled \in { Str(<<"A", "c", "t", "i", "v", "e">>), Str(<<"P", "e", "n", "d", "i", "n", "g">>), Str(<<"S", "o", "l", "d">>), Str(<<"L", "e", "a", "s", "e", "d">>),
                      Num(<<"5">>), Str(<< >>), Null } :
       state' = toggleStatusFilter(state, toggled)
  /\ UNCHANGED <<cache, fetching, fetched, returned, gens,
                 runVars, dedupVars, normVars>>

ResetFilters ==
  /\ state.filters # defaultFilters
  /\ state' = [state EXCEPT !.filters = defaultFilters]
  /\ UNCHANGED <<cache, fetching, fetched, returned, gens,
                 runVars, dedupVars, normVars>>

\* generatePropertyContent(propertyId) up to the await of delay(600), for
\* the id of a property of the store, for an id no property has and for
\* the empty id; gens is the bag of the calls made, each with the property
\* it found and the position it is at (a call that returned at once is over)
GeneratePropertyContent ==
  /\ BagCardinality(gens) < MaxGenerations
  /\ \E propertyId \in { state.properties[i].id.s : i \in DOMAIN state.properties }
                        \cup { <<"z", "9">>, << >> } :
       LET found == { j \in DOMAIN state.properties :
                        state.properties[j].id.s = propertyId }
           first == CHOOSE j \in found : \A k \in found : j <= k
       IN IF propertyId = << >> \/ found = {}
          THEN /\ state' = state
               /\ gens' = gens (+) SetToBag({[id |-> << >>, pc |-> "done",
                                              property |-> NoProperty]})
          ELSE /\ state' = [state EXCEPT
                              !.generationStatus =
                                (propertyId :> "loading") @@ state.generationStatus,
                              !.error = "null"]
               /\ gens' = gens (+) SetToBag({[id |-> propertyId, pc |-> "delay",
                                              property |-> state.properties[first]]})
  /\ UNCHANGED <<cache, fetching, fetched, returned,
                 runVars, dedupVars, normVars>>

\* the try block threw, before the copy was stored or after it (a listener
\* notified by setState threw): the catch branch; no timer is set
GenerateFails ==
  /\ \E g \in BagToSet(gens), contentStored \in BOOLEAN :
       /\ g.pc = "delay"
       /\ state' = [state EXCEPT
                      !.generationStatus =
                        (g.id :> "error") @@ state.generationStatus,
                      !.generatedContent =
                        IF contentStored
                        THEN (g.id :> g.property) @@ state.generatedContent
                        ELSE state.generatedContent,
                      !.error = "Unable to generate marketing content right now."]
       /\ gens' = (gens (-) SetToBag({g}))
                    (+) SetToBag({[id |-> << >>, pc |-> "done",
                                   property |-> NoProperty]})
  /\ UNCHANGED <<cache, fetching, fetched, returned,
                 runVars, dedupVars, normVars>>

\* delay(600) elapsed: the copy built from the property found at the call
\* is stored and the timer of 1600 ms is set
GenerateDelayElapsed ==
  /\ \E g \in BagToSet(gens) :
       /\ g.pc = "delay"
       /\ state' = [state EXCEPT
                      !.generationStatus =
                        (g.id :> "success") @@ state.generationStatus,
                      !.generatedContent =
                        (g.id :> g.property) @@ state.generatedContent]
       /\ gens' = (gens (-) SetToBag({g})) (+) SetToBag({[g EXCEPT !.pc = "timer"]})
  /\ UNCHANGED <<cache, fetching, fetched, returned,
                 runVars, dedupVars, normVars>>

\* Variant of the timer callback that removes the status whatever it is.
GenerationTimerFires_AlwaysRemoves ==
  /\ \E g \in BagToSet(gens) :
       /\ g.pc = "timer"
       /\ state' =
            IF g.id \notin DOMAIN state.generationStatus
            THEN state
            ELSE [state EXCEPT
                    !.generationStatus =
                      [id \in DOMAIN state.generationStatus \ {g.id} |->
                         state.generationStatus[id]]]
       /\ gens' = (gens (-) SetToBag({g}))
                    (+) SetToBag({[id |-> << >>, pc |-> "done",
                                   property |-> NoProperty]})
  /\ UNCHANGED <<cache, fetching, fetched, returned,
                 runVars, dedupVars, normVars>>

\* the timer fired: the status is removed if it is still 'success'; the
\* call is over
GenerationTimerFires ==
  /\ \E g \in BagToSet(gens) :
       /\ g.pc = "timer"
       /\ state' =
            IF \/ g.id \notin DOMAIN state.generationStatus
               \/ state.generationStatus[g.id] # "success"
            THEN state
            ELSE [state EXCEPT
                    !.generationStatus =
                      [id \in DOMAIN state.generationStatus \ {g.id} |->
                         state.generationStatus[id]]]
       /\ gens' = (gens (-) SetToBag({g}))
                    (+) SetToBag({[id |-> << >>, pc |-> "done",
                                   property |-> NoProperty]})
  /\ UNCHANGED <<cache, fetching, fetched, returned,
                 runVars, dedupVars, normVars>>

\* refreshes and cache loads. The filter actions read and write
\* state.filters only, which no other action reads or writes, and the
\* generation actions leave properties, statistics and the persisted entry
\* alone: they are explored on their own (SpecFilters, SpecGenerate)
NextStore ==
  \/ FetchProperties \/ FetchSucceeds \/ FetchFails \/ LoadFromCache

SpecStore == InitStore /\ [][NextStore]_vars

\* calls of generatePropertyContent on the store as a first refresh leaves
\* it, for each payload
InitGenerate ==
  /\ \E fetchedPayload \in FetchedPayloads :
       /\ state = [defaultState EXCEPT
                     !.properties = fetchedPayload.properties,
                     !.statistics = fetchedPayload.statistics,
                     !.lastUpdated = Nullish(fetchedPayload.lastUpdated, Now),
                     !.dataSource = fetchedPayload.dataSource]
       /\ cache = persistToCache(fetchedPayload.properties,
                                 Nullish(fetchedPayload.lastUpdated, Now),
                                 fetchedPayload.statistics,
                                 fetchedPayload.dataSource)
       /\ returned = [kind |-> "success", value |-> fetchedPayload.properties]
  /\ fetching = 0 /\ fetched = 1
  /\ gens = EmptyBag
  /\ dIn = << >> /\ dOut = << >> /\ dPc = "idle"
  /\ NormIdle /\ RunIdle

NextGenerate ==
  \/ GeneratePropertyContent \/ GenerateDelayElapsed \/ GenerateFails
  \/ GenerationTimerFires

SpecGenerate == InitGenerate /\ [][NextGenerate]_vars

\* the filter actions on the store as createPropertyStore() leaves it
InitFilters ==
  /\ StoreIdle /\ NormIdle /\ RunIdle
  /\ dIn = << >> /\ dOut = << >> /\ dPc = "idle"

NextFilters == ToggleStatusFilter \/ ResetFilters

SpecFilters == InitFilters /\ [][NextFilters]_vars

\* the promise of the service a fetchProperties call awaits settles
FairSpecStore ==
  /\ SpecStore
  /\ WF_vars(FetchSucceeds \/ FetchFails)

\* ------------------------------------------------------------------------
\* scrapeWindsorEssexProperties: the run
\* ------------------------------------------------------------------------

Init ==
  /\ token \in BOOLEAN
  /\ timeoutMs = 0
  /\ pc = "start" /\ status = "pending" /\ result = << >>
  /\ trace = <<"PRIMARY_REQUESTED">>
  /\ primary = "none" /\ actorCalled = FALSE /\ datasetRead = FALSE
  /\ dataset = << >> /\ items = << >>
  /\ elapsed = 0 /\ pollStart = -1 /\ lastPoll = "none" /\ timedOut = FALSE
  /\ via = "none" /\ urlIdx = 0 /\ results = << >> /\ outcomes = << >>
  /\ launched = 0 /\ closed = 0 /\ scrapeErr = "none" /\ scraped = << >>
  /\ dIn = << >> /\ dOut = << >> /\ dPc = "idle"
  /\ NormIdle /\ StoreIdle

\* timeoutMs of waitForDatasetReady for the option value given (default
\* parameter value when the option is undefined)
TimeoutMs(option) == IF option = NoTimeoutOption THEN DefaultTimeoutMs ELSE option

\* the run settles with `return value`
Resolve(value) ==
  /\ status' = "resolved" /\ result' = value /\ pc' = "done"
  /\ trace' = Append(trace, "NORMALIZE")

\* the run settles with an exception
Reject ==
  /\ status' = "rejected" /\ pc' = "done"
  /\ UNCHANGED <<result, trace>>

\* `return this.scrapeWithPuppeteerFallback(options)`: the loop starts with
\* the launch of the browser for the first URL
EnterFallback(reason) ==
  /\ primary' = reason /\ via' = reason
  /\ results' = << >> /\ outcomes' = << >>
  /\ UNCHANGED <<launched, closed, scrapeErr, scraped, result>>
  /\ IF NumUrls >= 1
     THEN /\ urlIdx' = 1 /\ pc' = "launch" /\ status' = status
          /\ trace' = Append(trace, "FALLBACK_REQUESTED")
     ELSE /\ urlIdx' = 0 /\ pc' = "done" /\ status' = "resolved"
          /\ trace' = trace \o <<"FALLBACK_REQUESTED", "NORMALIZE">>

\* Variant: the missing credential is not checked and the actor is called.
NoToken_CallsAnyway ==
  /\ pc = "start" /\ ~token
  /\ actorCalled' = TRUE /\ pc' = "actor_call"
  /\ UNCHANGED <<cfgVars, status, result, trace, waitVars, primary,
                 datasetRead, dataset, items, fbVars, libVars>>

\* lines 62-66: no credential
NoToken ==
  /\ pc = "start" /\ ~token
  /\ EnterFallback("noToken")
  /\ UNCHANGED <<cfgVars, waitVars, actorCalled, datasetRead, dataset, items,
                 libVars>>

\* lines 62-77: credential present, the actor call is issued
CallActor ==
  /\ pc = "start" /\ token
  /\ actorCalled' = TRUE /\ pc' = "actor_call"
  /\ UNCHANGED <<cfgVars, status, result, trace, waitVars, primary,
                 datasetRead, dataset, items, fbVars, libVars>>

\* Variant: the exception of the actor call escapes.
ActorCallThrows_Rejects ==
  /\ pc = "actor_call"
  /\ primary' = "actorThrew"
  /\ Reject
  /\ UNCHANGED <<cfgVars, waitVars, actorCalled, datasetRead, dataset, items,
                 fbVars, libVars>>

\* lines 78-81: the actor call throws
ActorCallThrows ==
  /\ pc = "actor_call"
  /\ EnterFallback("actorThrew")
  /\ UNCHANGED <<cfgVars, waitVars, actorCalled, datasetRead, dataset, items,
                 libVars>>

\* lines 83-86: the run has no defaultDatasetId
ActorCallNoDataset ==
  /\ pc = "actor_call"
  /\ EnterFallback("noDataset")
  /\ UNCHANGED <<cfgVars, waitVars, actorCalled, datasetRead, dataset, items,
                 libVars>>

\* head of the while loop of waitForDatasetReady with timeout `timeout` at
\* elapsed time e: either the next poll is issued, or the warning is logged
\* and the function returns, upon which collectDatasetItems issues its first
\* page request
WaitLoopHead(timeout, e) ==
  /\ timeoutMs' = timeout
  /\ datasetRead' = TRUE
  /\ IF e < timeout
     THEN pc' = "poll" /\ elapsed' = e /\ pollStart' = e /\ timedOut' = timedOut
     ELSE pc' = "collect" /\ elapsed' = 0 /\ pollStart' = -1 /\ timedOut' = TRUE

\* lines 83-88: the run has a dataset; waitForDatasetReady starts
ActorCallSucceeds ==
  /\ pc = "actor_call"
  /\ \E ds \in SeqsUpTo(RawItems, MaxItems) : dataset' = ds
  /\ primary' = "dataset"
  /\ \E option \in DatasetTimeoutOptions : WaitLoopHead(TimeoutMs(option), 0)
  /\ UNCHANGED <<cfgVars, status, result, trace, lastPoll, actorCalled, items,
                 fbVars, libVars>>

\* lines 109-120: listItems({limit: 1}) answers {total, items}
PollReturns ==
  /\ pc = "poll"
  /\ \E latency \in PollLatencies, total \in {0, Len(dataset)} :
       LET itemsLength == IF total > 0 THEN 1 ELSE 0
       IN IF total > 0 \/ itemsLength > 0
          THEN /\ lastPoll' = "ready" /\ pc' = "collect"
               /\ elapsed' = 0 /\ pollStart' = -1
          ELSE /\ lastPoll' = "empty" /\ pc' = "delay"
               /\ elapsed' = elapsed + latency /\ pollStart' = pollStart
  /\ UNCHANGED <<cfgVars, status, result, trace, timeoutMs, timedOut,
                 primVars, fbVars, libVars>>

\* Variant: the exception of a poll escapes waitForDatasetReady.
PollThrows_Rejects ==
  /\ pc = "poll"
  /\ lastPoll' = "threw"
  /\ Reject
  /\ UNCHANGED <<cfgVars, timeoutMs, elapsed, pollStart, timedOut, primVars,
                 fbVars, libVars>>

\* lines 116-120: listItems rejects; the poll is retried after the delay
PollThrows ==
  /\ pc = "poll"
  /\ \E latency \in PollLatencies : elapsed' = elapsed + latency
  /\ lastPoll' = "threw" /\ pc' = "delay"
  /\ UNCHANGED <<cfgVars, status, result, trace, timeoutMs, pollStart, timedOut,
                 primVars, fbVars, libVars>>

\* lines 120, 107: the delay is over, back to the loop head
DelayElapsed ==
  /\ pc = "delay"
  /\ WaitLoopHead(timeoutMs, elapsed + PollIntervalMs)
  /\ UNCHANGED <<cfgVars, status, result, trace, lastPoll, primary,
                 actorCalled, dataset, items, fbVars, libVars>>

\* Variant: the loop ends after the first page.
CollectPageReturns_FirstPageOnly ==
  /\ pc = "collect"
  /\ LET remaining == Len(dataset) - Len(items)
     IN \E k \in (IF remaining = 0 THEN {0} ELSE 1..remaining) :
          LET pageItems == SubSeq(dataset, Len(items) + 1, Len(items) + k)
          IN /\ items' = items \o pageItems
             /\ Resolve(PrimaryResult(items \o pageItems))
  /\ UNCHANGED <<cfgVars, waitVars, primary, actorCalled, datasetRead, dataset,
                 fbVars, libVars>>

\* lines 131-150 and 93-100: a page of the dataset arrives
CollectPageReturns ==
  /\ pc = "collect"
  /\ LET remaining == Len(dataset) - Len(items)
     IN \E k \in (IF remaining = 0 THEN {0} ELSE 1..remaining),
           hasTotal \in BOOLEAN :
          LET pageItems == SubSeq(dataset, Len(items) + 1, Len(items) + k)
              offset == Len(items) + k
          IN /\ items' = items \o pageItems
             /\ IF k = 0 \/ (hasTotal /\ offset >= Len(dataset))
                THEN Resolve(PrimaryResult(items \o pageItems))
                ELSE pc' = "collect" /\ UNCHANGED <<status, result, trace>>
  /\ UNCHANGED <<cfgVars, waitVars, primary, actorCalled, datasetRead, dataset,
                 fbVars, libVars>>

\* line 132: listItems rejects while the items are read
CollectThrows ==
  /\ pc = "collect"
  /\ Reject
  /\ UNCHANGED <<cfgVars, waitVars, primVars, fbVars, libVars>>

\* ------------------------------------------------------------------------
\* scrapeWithPuppeteerFallback and customScrapeRealtor
\* ------------------------------------------------------------------------
\* outcome of one loop iteration: "ok" with the listings pushed, or "threw"
Outcome(stage, listings) == [stage |-> stage, listings |-> listings]

\* end of one iteration of the for loop: the next launch, or the return
UrlDone(newResults, outcome) ==
  /\ results' = newResults
  /\ outcomes' = Append(outcomes, outcome)
  /\ scrapeErr' = "none" /\ scraped' = << >>
  /\ IF urlIdx < NumUrls
     THEN /\ urlIdx' = urlIdx + 1 /\ pc' = "launch"
          /\ UNCHANGED <<status, result, trace>>
     ELSE /\ urlIdx' = urlIdx
          /\ Resolve(FallbackResult(newResults))

\* Variant: a failing URL ends the loop.
UrlFailed_Abort ==
  /\ results' = results
  /\ outcomes' = Append(outcomes, Outcome("threw", << >>))
  /\ scrapeErr' = "none" /\ scraped' = << >>
  /\ urlIdx' = urlIdx
  /\ Resolve(FallbackResult(results))

\* lines 644-646: the catch of the loop body
UrlFailed == UrlDone(results, Outcome("threw", << >>))

\* line 660
LaunchOk ==
  /\ pc = "launch"
  /\ launched' = launched + 1 /\ pc' = "newPage"
  /\ UNCHANGED <<cfgVars, status, result, trace, waitVars, primVars, via,
                 urlIdx, results, outcomes, closed, scrapeErr, scraped,
                 libVars>>

\* line 660: launch throws outside the try block
LaunchThrows ==
  /\ pc = "launch"
  /\ UrlFailed
  /\ UNCHANGED <<cfgVars, waitVars, primVars, via, launched, closed, libVars>>

\* a step of the try block succeeded: the next one is issued
TryStepTo(to) ==
  /\ pc' = to
  /\ UNCHANGED <<cfgVars, status, result, trace, waitVars, primVars, fbVars,
                 libVars>>

\* a step of the try block threw: `finally` issues browser.close()
TryStepThrows(stage) ==
  /\ pc' = "close"
  /\ scrapeErr' = stage
  /\ UNCHANGED <<cfgVars, status, result, trace, waitVars, primVars, via,
                 urlIdx, results, outcomes, launched, closed, scraped,
                 libVars>>

\* line 662
NewPageOk ==
  /\ pc = "newPage"
  /\ TryStepTo("goto")

NewPageThrows ==
  /\ pc = "newPage"
  /\ TryStepThrows("newPage")

\* Variant: the exception of page.goto leaves the function without close.
GotoThrows_NoClose ==
  /\ pc = "goto"
  /\ UrlFailed
  /\ UNCHANGED <<cfgVars, waitVars, primVars, via, launched, closed, libVars>>

\* line 663
GotoOk ==
  /\ pc = "goto"
  /\ TryStepTo("selector")

GotoThrows ==
  /\ pc = "goto"
  /\ TryStepThrows("goto")

\* line 664: waitForSelector(...).catch(() => null)
SelectorSettles ==
  /\ pc = "selector"
  /\ TryStepTo("evaluate")

\* lines 666-710
EvaluateOk ==
  /\ pc = "evaluate" /\ pc' = "close"
  /\ \E cards \in SeqsUpTo(PageCards, MaxCards) : scraped' = ScrapedListings(cards)
  /\ UNCHANGED <<cfgVars, status, result, trace, waitVars, primVars, via,
                 urlIdx, results, outcomes, launched, closed, scrapeErr,
                 libVars>>

EvaluateThrows ==
  /\ pc = "evaluate"
  /\ TryStepThrows("evaluate")

\* lines 711-713 and 639-646: the browser is closed; the pending exception
\* reaches the catch of the loop, or the listings are pushed
CloseReturns ==
  /\ pc = "close"
  /\ closed' = closed + 1
  /\ IF scrapeErr # "none"
     THEN UrlFailed
     ELSE UrlDone(results \o scraped, Outcome("ok", scraped))
  /\ UNCHANGED <<cfgVars, waitVars, primVars, via, launched, libVars>>

Next ==
  \/ NoToken \/ CallActor
  \/ ActorCallThrows \/ ActorCallNoDataset \/ ActorCallSucceeds
  \/ PollReturns \/ PollThrows \/ DelayElapsed
  \/ CollectPageReturns \/ CollectThrows
  \/ LaunchOk \/ LaunchThrows
  \/ NewPageOk \/ NewPageThrows
  \/ GotoOk \/ GotoThrows
  \/ SelectorSettles
  \/ EvaluateOk \/ EvaluateThrows
  \/ CloseReturns

Spec == Init /\ [][Next]_vars

\* a pending dataset request eventually settles and a pending timer
\* eventually fires
FairSpec ==
  /\ Spec
  /\ WF_vars(PollReturns \/ PollThrows)
  /\ WF_vars(DelayElapsed)
  /\ WF_vars(CollectPageReturns \/ CollectThrows)

\* ------------------------------------------------------------------------
\* Properties of the deduplicator (SpecDedup)
\* ------------------------------------------------------------------------
\* The key of the data model, stated independently of the code: the first
\* non-empty of the lowercased mlsNumber, listingUrl and address.
KeyCandidates(l) == <<l.mlsNumber, l.listingUrl, l.address>>
HasKey(l) == ~l.isNull /\ \E c \in 1..3 : Truthy(KeyCandidates(l)[c])
KeyOf(l) ==
  LET c == CHOOSE c \in 1..3 :
             /\ Truthy(KeyCandidates(l)[c])
             /\ \A b \in 1..(c - 1) : ~Truthy(KeyCandidates(l)[b])
  IN toLowerCase(KeyCandidates(l)[c].s)

\* index in dIn of the first listing carrying the key of dIn[i]
FirstWithKey(i) ==
  CHOOSE h \in DOMAIN dIn :
    /\ HasKey(dIn[h]) /\ KeyOf(dIn[h]) = KeyOf(dIn[i])
    /\ \A g \in 1..(h - 1) : ~(HasKey(dIn[g]) /\ KeyOf(dIn[g]) = KeyOf(dIn[i]))

\* the listings of dIn that are the first to carry their key, in input order
FirstOccurrences == { i \in DOMAIN dIn : HasKey(dIn[i]) /\ FirstWithKey(i) = i }

\* C1: deduplicateListings returns, in order of first occurrence, exactly one
\* listing per distinct DedupKey of the input, and that listing is the first
\* one in the input carrying the key.
C1_FirstSeenWins ==
  dPc = "done" =>
    /\ Len(dOut) = Cardinality(FirstOccurrences)
    /\ \A j \in DOMAIN dOut :
         \E i \in FirstOccurrences :
           /\ dOut[j] = dIn[i]
           /\ Cardinality({ h \in FirstOccurrences : h < i }) = j - 1

\* C1 witness: two listings share an MLS number (up to case) and differ in
\* their address; only the first of them is returned.
C1_Witness ==
  /\ dPc = "done"
  /\ \E i, j \in DOMAIN dIn :
       /\ i < j
       /\ Truthy(dIn[i].mlsNumber) /\ Truthy(dIn[j].mlsNumber)
       /\ toLowerCase(dIn[i].mlsNumber.s) = toLowerCase(dIn[j].mlsNumber.s)
       /\ dIn[i].address # dIn[j].address
       /\ \E k \in DOMAIN dOut : dOut[k] = dIn[i]
       /\ \A k \in DOMAIN dOut : dOut[k] # dIn[j]

\* C2: a listing whose mlsNumber, listingUrl and address are all empty never
\* appears in the output of deduplicateListings.
C2_KeylessExcluded ==
  dPc = "done" =>
    \A j \in DOMAIN dOut :
      \/ Truthy(dOut[j].mlsNumber)
      \/ Truthy(dOut[j].listingUrl)
      \/ Truthy(dOut[j].address)

\* C2 witness: the input held a listing without any key, with a city, next
\* to a listing that was returned.
C2_Witness ==
  /\ dPc = "done"
  /\ dOut # << >>
  /\ \E i \in DOMAIN dIn :
       /\ ~dIn[i].isNull
       /\ ~Truthy(dIn[i].mlsNumber)
       /\ ~Truthy(dIn[i].listingUrl)
       /\ ~Truthy(dIn[i].address)
       /\ Truthy(dIn[i].city)

\* ------------------------------------------------------------------------
\* Properties of the acquisition run (Spec, FairSpec)
\* ------------------------------------------------------------------------
\* the listings returned by the URL scrapes that did not throw, in URL order
RECURSIVE ConcatOk(_)
ConcatOk(outs) ==
  IF outs = << >> THEN << >>
  ELSE (IF Head(outs).stage = "ok" THEN Head(outs).listings ELSE << >>)
       \o ConcatOk(Tail(outs))

\* the normalized listings the run obtained on the path it took
NormalizedInput ==
  IF via = "none"
  THEN SelectSeq([i \in DOMAIN items |-> normalizeListing(items[i])],
                 LAMBDA l : ~l.isNull)
  ELSE ConcatOk(outcomes)

CityAllowed(city) ==
  /\ city.k = "str" /\ city.s # << >>
  /\ \E name \in WINDSOR_ESSEX_CITY_NAMES : toLowerCase(city.s) = toLowerCase(name)

KeepAllowed(listings) == SelectSeq(listings, LAMBDA l : CityAllowed(l.city))

FallbackCauses == {"noToken", "actorThrew", "noDataset"}

\* C3: on both paths every returned listing has a non-empty city whose
\* lowercase form is in the Windsor-Essex allow-list.
C3_ReturnedInRegion ==
  status = "resolved" => \A i \in DOMAIN result : CityAllowed(result[i].city)

\* C3 witness: the primary path returned a listing while a keyed listing of
\* the dataset with a city outside the list, or without city, was dropped.
C3_Witness ==
  /\ status = "resolved" /\ via = "none" /\ result # << >>
  /\ \E i \in DOMAIN NormalizedInput :
       /\ HasKey(NormalizedInput[i])
       /\ ~CityAllowed(NormalizedInput[i].city)

\* C4: on both paths the returned set equals
\* deduplicate(filter(normalized)): the filter is applied before the
\* deduplication.
C4_FilterBeforeDedup ==
  status = "resolved" => result = deduplicateListings(KeepAllowed(NormalizedInput))

C6_NoCredentialNoCall ==
  ~token =>
    /\ ~actorCalled /\ ~datasetRead
    /\ status # "rejected"
    /\ pc # "start" => via = "noToken"
    /\ status = "resolved" =>
         result = KeepAllowed(deduplicateListings(ConcatOk(outcomes)))

\* C6 witness: a run without credential resolved with listings of the
\* fallback.
C6_Witness ==
  /\ ~token /\ status = "resolved" /\ result # << >>
  /\ Len(outcomes) = NumUrls

\* C7: the fallback scrapes every start URL whatever the other URLs did, and
\* returns the deduplicated and filtered concatenation, in URL order, of the
\* results of the URLs that did not throw.
C7_FallbackIsolation ==
  (status = "resolved" /\ via # "none") =>
    /\ Len(outcomes) = NumUrls
    /\ results = ConcatOk(outcomes)
    /\ result = KeepAllowed(deduplicateListings(results))

\* C7 witness: of three URLs the second threw; the first and the third were
\* scraped and their listings, and only theirs, were collected and returned.
C7_Witness ==
  /\ status = "resolved" /\ via # "none" /\ Len(outcomes) >= 3
  /\ outcomes[1].stage = "ok" /\ outcomes[1].listings # << >>
  /\ outcomes[2].stage = "threw"
  /\ outcomes[3].stage = "ok" /\ outcomes[3].listings # << >>
  /\ outcomes[1].listings # outcomes[3].listings
  /\ results = outcomes[1].listings \o outcomes[3].listings
  /\ result = <<outcomes[1].listings[1]>>

\* C8 as claimed: when the primary path is unavailable and every start-URL
\* scrape throws, the run rejects.
C8_TotalFailureRejects ==
  (/\ pc = "done" /\ via # "none"
   /\ Len(outcomes) = NumUrls
   /\ \A i \in DOMAIN outcomes : outcomes[i].stage # "ok")
    => status = "rejected"

\* C9: at most one browser is open at any time, every launched browser is
\* closed when its URL scrape is left, and none is open once the run settled.
C9_BrowserScoped ==
  /\ launched - closed \in {0, 1}
  /\ pc \in {"newPage", "goto", "selector", "evaluate", "close"}
       <=> launched - closed = 1
  /\ status # "pending" => launched = closed
  /\ launched <= Len(outcomes) + 1

\* C9 witness: a browser was launched for every URL, at least two of the
\* scrapes threw after the launch, and every browser was closed when the
\* fallback settled.
C9_Witness ==
  /\ status = "resolved" /\ via # "none"
  /\ launched = NumUrls /\ closed = NumUrls
  /\ \E i, j \in DOMAIN outcomes :
       i # j /\ outcomes[i].stage = "threw" /\ outcomes[j].stage = "threw"

InWait == pc \in {"poll", "delay"}

\* C10: waitForDatasetReady terminates and never rejects; it returns as soon
\* as a poll reports a non-empty dataset, a failed or empty poll is followed
\* by one poll interval of delay, consecutive polls are at least one interval
\* apart, and at the loop head it returns, with the warning, once the elapsed
\* time has reached the timeout.
C10_WaitTerminates ==
  /\ InWait ~> ~InWait
  /\ [][InWait => status' = "pending"]_vars
  /\ [][(InWait /\ ~InWait') => pc' = "collect"]_vars
  /\ [][(pc = "poll" /\ lastPoll' = "ready") <=> (pc = "poll" /\ pc' = "collect")]_vars
  /\ [][(pc = "poll" /\ pc' # "collect") =>
          (pc' = "delay" /\ lastPoll' \in {"empty", "threw"})]_vars
  /\ [][(pc' = "poll" /\ pc # "poll" /\ pollStart >= 0) =>
          pollStart' - pollStart >= PollIntervalMs]_vars
  /\ [][pc = "delay" =>
          IF elapsed + PollIntervalMs >= timeoutMs
          THEN pc' = "collect" /\ timedOut'
          ELSE pc' = "poll" /\ ~timedOut'
               /\ elapsed' = elapsed + PollIntervalMs]_vars

\* C10 witness: with the default timeout the wait ended by the timeout after
\* a failed poll.
C10_Witness ==
  /\ pc = "collect" /\ timedOut /\ lastPoll = "threw"
  /\ timeoutMs = DefaultTimeoutMs
  /\ status = "pending"

\* ------------------------------------------------------------------------
\* Properties of the parsers and normalizers (SpecNormalize)
\* ------------------------------------------------------------------------
\* the function fn has been called on nIn
Called(fn) == nFn = fn /\ nOut # << >>

\* a JavaScript number other than NaN
IsNumber(v) == v.k \in {"num", "inf"}

\* the value at a dotted path of a record, Undef when a segment is missing
RECURSIVE ValueAt(_, _)
ValueAt(v, segments) ==
  IF segments = << >> THEN v
  ELSE IF v.k = "obj" /\ Head(segments) \in DOMAIN v.o
       THEN ValueAt(v.o[Head(segments)], Tail(segments))
       ELSE Undef

\* the record holds something at one of the paths
Supplies(raw, paths) ==
  \E i \in DOMAIN paths :
    LET v == ValueAt(raw, paths[i])
    IN v.k \notin {"undef", "null"} /\ ~(v.k = "str" /\ v.s = << >>)

\* coordinates are null or carry two numbers, and are null when the record
\* supplies no latitude or no longitude
CompleteCoordinates(raw, c) ==
  /\ \/ c.k = "null"
     \/ c.k = "obj" /\ DOMAIN c.o = {"lat", "lng"}
        /\ IsNumber(c.o.lat) /\ IsNumber(c.o.lng)
  /\ (~Supplies(raw, LatitudePaths) \/ ~Supplies(raw, LongitudePaths))
       => c.k = "null"

\* C11: extractCoordinates returns null or an object whose lat and lng are
\* both numbers; a record that supplies only a latitude or only a longitude
\* gets null coordinates, as function result and as field of the listing.
C11_CoordinatesComplete ==
  /\ Called("extractCoordinates") => CompleteCoordinates(nIn, nOut[1])
  /\ (Called("normalizeListing") /\ nOut[1].kind = "listing")
       => CompleteCoordinates(nIn, nOut[1].coordinates)

\* a record with a latitude and no longitude has been handled
C11_Witness ==
  /\ Called("extractCoordinates")
  /\ Supplies(nIn, LatitudePaths) /\ ~Supplies(nIn, LongitudePaths)
  /\ extractNumber(valueFromPaths(nIn, LatitudePaths)).k = "num"
  /\ nOut[1] = Null

\* the string without whitespace, currency symbols, unit words and commas
CosmeticFree(chars) == SelectSeq(chars, LAMBDA c : c \in Digits \cup {".", "-"})

\* C12: parsePrice and extractNumber return for a string the number they
\* return for the same string written without whitespace, currency symbols,
\* unit words and thousands-separator commas, and null for a string that
\* contains no digit.
C12_CosmeticInvariance ==
  /\ Called("parsePrice") =>
       /\ nOut[1] = parsePrice(Str(CosmeticFree(nIn.s)))
       /\ (\A i \in DOMAIN nIn.s : nIn.s[i] \notin Digits) => nOut[1] = Null
  /\ Called("extractNumber") =>
       /\ nOut[1] = extractNumber(Str(CosmeticFree(nIn.s)))
       /\ (\A i \in DOMAIN nIn.s : nIn.s[i] \notin Digits) => nOut[1] = Null

\* the numeric fields of a listing
NumericFields(l) ==
  <<l.price, l.bedrooms, l.bathrooms, l.squareFeet, l.lotSize, l.yearBuilt>>

\* C13: every numeric field (price, bedrooms, bathrooms, squareFeet, lotSize,
\* yearBuilt) of a listing built by normalizeListing or
\* normalizeFallbackListing is null or a finite number.
C13_NumericFieldsFinite ==
  ((Called("normalizeListing") \/ Called("normalizeFallbackListing"))
     /\ nOut[1].kind = "listing")
    => \A i \in 1..6 : NumericFields(nOut[1])[i].k \in {"null", "num"}

\* C14: whenever the price of a normalized listing is non-null, its
\* priceFormatted is the currency rendering of that price (a display string
\* of the source is used only when the price is null), in the service's two
\* normalizers and in the store's.
C14_PriceFormattedFromPrice ==
  ((Called("normalizeListing") \/ Called("normalizeFallbackListing")
      \/ Called("normalizeProperty"))
     /\ nOut[1].kind \in {"listing", "property"}
     /\ nOut[1].price.k # "null")
    => nOut[1].priceFormatted = formatPrice(nOut[1].price)

\* the raw record carries an id candidate or a fully-formed address
HasAnchor(raw) ==
  /\ raw.k = "obj"
  /\ \E key \in {"id", "listingId", "mlsId", "mlsNumber", "addressText"} :
       Truthy(Get(raw, key))

\* C15: normalizeListing returns null for every raw record without id
\* candidate and without address, and a listing for every other record.
C15_NullWithoutAnchor ==
  Called("normalizeListing") =>
    /\ nOut[1].kind = "listing"
         => Truthy(nOut[1].id) \/ Truthy(nOut[1].address)
    /\ HasAnchor(nIn) => nOut[1].kind = "listing"

\* C16: the flat record of the end-to-end scenario normalizes to mlsNumber
\* "W123", price 450000, priceFormatted "$450,000", address "10 Main St",
\* city "Windsor", bedrooms 3 and the image prefixed with the base host; a
\* top-level string address of any record is kept as the listing's address.
C16_ScenarioListing ==
  Called("normalizeListing") =>
    /\ nIn = ScenarioRecord =>
         /\ nOut[1].kind = "listing"
         /\ nOut[1].mlsNumber = Str(<<"W", "1", "2", "3">>)
         /\ nOut[1].price = Num(<<"4", "5", "0", "0", "0", "0">>)
         /\ nOut[1].priceFormatted = Str(<<"$", "4", "5", "0", ",", "0", "0", "0">>)
         /\ nOut[1].address = Str(<<"1", "0", " ", "M", "a", "i", "n", " ", "S", "t">>)
         /\ nOut[1].city = Str(<<"W", "i", "n", "d", "s", "o", "r">>)
         /\ nOut[1].bedrooms = Num(<<"3">>)
         /\ nOut[1].images = <<Str(<<"h", "t", "t", "p", "s", ":", "/", "/", "w", "w", "w", ".", "r", "e", "a", "l", "t", "o", "r", ".", "c", "a", "/", "p", "h", "o", "t", "o", "1", ".", "j", "p", "g">>)>>
    /\ (nOut[1].kind = "listing" /\ Get(nIn, "address").k = "str"
          /\ trim(Get(nIn, "address").s) # << >>)
         => nOut[1].address = Str(trim(Get(nIn, "address").s))

\* C17: two normalizations of the same raw record yield equal results, for
\* the service's normalizeListing and for the store's normalizeProperty.
C17_Deterministic ==
  ((nFn = "normalizeListing" \/ nFn = "normalizeProperty") /\ Len(nOut) >= 2)
    => nOut[1] = nOut[2]

\* the sequence without the elements that occurred before
RECURSIVE KeepFirst(_)
KeepFirst(seq) ==
  IF seq = << >> THEN << >>
  ELSE LET front == KeepFirst(SubSeq(seq, 1, Len(seq) - 1))
           last == seq[Len(seq)]
       IN IF \E i \in DOMAIN front : front[i] = last THEN front
          ELSE Append(front, last)

\* the concatenation of a sequence of sequences
RECURSIVE Flatten(_)
Flatten(seqs) == IF seqs = << >> THEN << >> ELSE Head(seqs) \o Flatten(Tail(seqs))

\* the absolute form of an image path
AbsoluteImage(chars) ==
  IF \/ startsWith(chars, <<"h", "t", "t", "p", ":", "/", "/">>)
     \/ startsWith(chars, <<"h", "t", "t", "p", "s", ":", "/", "/">>)
  THEN chars
  ELSE IF chars[1] = "/" THEN BASE_REALTOR_URL \o chars
  ELSE BASE_REALTOR_URL \o <<"/">> \o chars

\* the absolute forms of the image paths of a raw record, in the order of
\* the source locations
CandidateImages(raw) ==
  LET all == Flatten([i \in DOMAIN ImageCandidates(raw) |->
                        CandidateElements(ImageCandidates(raw)[i])])
      given == SelectSeq(all, LAMBDA u : u.k = "str" /\ trim(u.s) # << >>)
  IN [i \in DOMAIN given |-> Str(AbsoluteImage(trim(given[i].s)))]

\* the identity key of an agent
AgentIdentity(a) ==
  LET fields == <<a.name, a.email, a.phone, a.brokerage>>
      present == { i \in 1..4 : fields[i].k = "str" /\ fields[i].s # << >> }
  IN IF present = {} THEN << >>
     ELSE toLowerCase(fields[CHOOSE i \in present : \A j \in present : i <= j].s)

\* the agents collected from a raw record before deduplication
CollectedAgents(raw) ==
  LET agents == AgentsLoop(<< >>, AgentCandidates(raw))
  IN IF agents # << >> THEN agents
     ELSE IF extractAgents(raw).threw THEN << >>
     ELSE extractAgents(raw).agents

FailedFetchSettles ==
  fetching' = fetching - 1 /\ returned'.kind # "success"

\* the persisted entry holds a non-empty list
CacheHoldsListings ==
  cache.kind = "entry" /\ cache.properties.o # << >>

\* C19: a fetchProperties call whose service call failed resolves: with a
\* non-empty cached list the store's properties become the cached ones, the
\* error is the cached-results message and the cached list is returned;
\* otherwise the properties are empty, an error is set and [] is returned;
\* the persisted entry is left as it was.
C19_FailureFallsBackToCache ==
  [][ FailedFetchSettles =>
        /\ cache' = cache
        /\ IF CacheHoldsListings
           THEN /\ returned'.kind = "cached"
                /\ returned'.value = state'.properties
                /\ Len(state'.properties) = Len(cache.properties.o)
                /\ \A i \in DOMAIN state'.properties :
                     PropertyAsJson(state'.properties[i]) = cache.properties.o[i]
                /\ state'.error = "Unable to refresh properties. Showing the most recent cached results."
           ELSE /\ returned' = [kind |-> "failed", value |-> << >>]
                /\ state'.properties = << >>
                /\ state'.error # "null"
  ]_vars

\* a failed call fell back to a persisted list the store did not show
C19_Witness ==
  /\ returned.kind = "cached" /\ returned.value = state.properties
  /\ Len(state.properties) = MaxProperties
  /\ fetched = 1 /\ fetching = 0

\* a failed call found an entry with an empty list and reported the failure
C19_WitnessEmptyEntry ==
  /\ returned.kind = "failed" /\ state.error = "Network Error"
  /\ cache.kind = "entry" /\ cache.properties.o = << >>

\* C20: in every state of the store the statistics are those computeStatistics
\* gives for the properties, also when the properties were restored from the
\* persisted entry.
C20_StatisticsMatchProperties ==
  state.statistics = computeStatistics(state.properties)

\* the properties were restored from the persisted entry after a failure and
\* the statistics count them
C20_Witness ==
  /\ returned.kind = "cached" /\ state.properties # << >>
  /\ state.statistics.total = Len(state.properties)
  /\ state.statistics # defaultStatistics
  /\ state.statistics = cache.statistics

\* ------------------------------------------------------------------------
\* valueFromPaths, extractFeatures, formatAddress, listing id
\* ------------------------------------------------------------------------
\* the value at a dotted path all of whose segments exist, every
\* intermediate value being an object (a record, or an array with its
\* indices and its length); Undef otherwise
RECURSIVE ObjectValueAt(_, _)
ObjectValueAt(v, segments) ==
  IF segments = << >> THEN v
  ELSE IF v.k = "obj" /\ Head(segments) \in DOMAIN v.o
       THEN ObjectValueAt(v.o[Head(segments)], Tail(segments))
  ELSE IF v.k = "arr" /\ Head(segments) = "length" /\ Len(v.o) < 10
       THEN ObjectValueAt(Num(<<DigitChars[Len(v.o) + 1]>>), Tail(segments))
  ELSE IF /\ v.k = "arr" /\ Head(segments) \in Digits
          /\ DigitValue(Head(segments)) < Len(v.o)
       THEN ObjectValueAt(v.o[DigitValue(Head(segments)) + 1], Tail(segments))
  ELSE Undef

\* neither undefined nor null nor the empty string
Present(v) == v.k \notin {"undef", "null"} /\ ~(v.k = "str" /\ v.s = << >>)

\* C21: valueFromPaths returns the value at the earliest listed path all of
\* whose segments exist and whose value is not undefined, null or the empty
\* string, and null when no listed path qualifies; a path with a missing or
\* non-object intermediate segment contributes nothing.
C21_ValueAtEarliestPath ==
  Called("valueFromPaths") =>
    LET qualifying == { i \in DOMAIN nIn.paths :
                          Present(ObjectValueAt(nIn.object, nIn.paths[i])) }
    IN nOut[1] = IF qualifying = {} THEN Null
                 ELSE ObjectValueAt(nIn.object,
                        nIn.paths[CHOOSE i \in qualifying :
                                    \A j \in qualifying : i <= j])

\* the candidate paths of the four numeric features
FeaturePaths ==
  [bedrooms |-> << <<"bedrooms">>, <<"bedroomsTotal">>, <<"bedroomsAboveGround">>,
                   <<"property", "bedrooms">>,
                   <<"property", "building", "bedrooms">>,
                   <<"building", "bedrooms">>, <<"building", "bedroomsTotal">>,
                   <<"summary", "bedrooms">> >>,
   bathrooms |-> << <<"bathrooms">>, <<"bathroomsTotal">>,
                    <<"property", "bathrooms">>,
                    <<"property", "building", "bathrooms">>,
                    <<"building", "bathrooms">>, <<"summary", "bathrooms">> >>,
   squareFeet |-> << <<"sizeInterior">>, <<"building", "sizeInterior">>,
                     <<"building", "totalFinishedArea">>,
                     <<"property", "building", "sizeInterior">>,
                     <<"property", "squareFeet">>, <<"squareFootage">>,
                     <<"area">> >>,
   yearBuilt |-> << <<"building", "builtYear">>,
                    <<"building", "constructedDate">>,
                    <<"property", "building", "builtYear">>,
                    <<"property", "building", "constructedDate">> >>]

\* some candidate path of the feature holds a present value in the record
PathMatches(raw, feature) ==
  \E i \in DOMAIN FeaturePaths[feature] :
    Present(ObjectValueAt(raw, FeaturePaths[feature][i]))

\* the record without its detail entries
WithoutDetails(raw) ==
  Obj([key \in DOMAIN raw.o \ {"details"} |-> raw.o[key]])

\* C22: for bedrooms, bathrooms, squareFeet and yearBuilt the detail
\* entries are consulted only if no candidate path matches: when some
\* candidate path holds a present non-empty value (the number 0 and a
\* string without digits included), the field is what the record yields
\* without its detail entries.
C22_PathValueAlone ==
  (Called("normalizeListing") /\ nOut[1].kind = "listing") =>
    \A feature \in DOMAIN FeaturePaths :
      PathMatches(nIn, feature) =>
        nOut[1][feature] = extractFeatures(WithoutDetails(nIn))[feature]

\* the record without its addressText
WithoutAddressText(raw) ==
  Obj([key \in DOMAIN raw.o \ {"addressText"} |-> raw.o[key]])

\* the location object of the record has a street, city, province or
\* postal part that is present after cleaning
HasAddressPart(raw) ==
  LET location == OrChain(<<Get(raw, "location"), Get(raw, "address"),
                            OptGet(Get(raw, "property"), "address"),
                            OptGet(Get(raw, "property"), "location"),
                            Get(raw, "propertyLocation"), EmptyObject>>)
  IN \E key \in {"addressLine1", "address1", "streetAddress", "line1",
                  "addressLine2", "address2", "streetAddress2", "line2",
                  "city", "municipality", "province", "state",
                  "postalCode", "postal_code"} :
       Truthy(cleanString(Get(location, key)))

\* C23: the listing address is the address string of the raw record
\* whenever one is present; otherwise it is what the street, city, province
\* and postal parts give; it is null exactly when neither an address string
\* nor a part is present.
C23_AddressStringElseParts ==
  (Called("normalizeListing") /\ nOut[1].kind = "listing") =>
    LET text == cleanString(Get(nIn, "addressText"))
    IN /\ nOut[1].address =
            IF Truthy(text) THEN text
            ELSE normalizeListingRecord(WithoutAddressText(nIn)).address
       /\ nOut[1].address = Null <=> (~Truthy(text) /\ ~HasAddressPart(nIn))

\* the first of the values that is neither undefined nor null (null when
\* there is none)
RECURSIVE FirstDefined(_)
FirstDefined(values) ==
  IF values = << >> THEN Null
  ELSE IF Head(values).k \notin {"undef", "null"} THEN Head(values)
  ELSE FirstDefined(Tail(values))

\* C24: the id of a normalized listing is the first defined value among
\* the raw record's id, mlsNumber, listingId, mlsId and propertyId, the
\* listing URL and the address, in that order; a record without id and MLS
\* fields that has a listing URL or an address gets a non-null id.
C24_IdIsFirstDefinedCandidate ==
  (Called("normalizeListing") /\ nOut[1].kind = "listing") =>
    nOut[1].id = FirstDefined(<<Get(nIn, "id"), Get(nIn, "mlsNumber"),
                                Get(nIn, "listingId"), Get(nIn, "mlsId"),
                                Get(nIn, "propertyId"), nOut[1].listingUrl,
                                nOut[1].address>>)

\* ------------------------------------------------------------------------
\* Primary source: errors and paging (Spec, FairSpec)
\* ------------------------------------------------------------------------
\* C25: an error of the primary source, whether the actor call throws or
\* the dataset is unreachable while its items are read, triggers the
\* fallback: the run never rejects without the fallback having been
\* attempted.
C25_PrimaryErrorFallsBack ==
  /\ primary = "actorThrew" => via = "actorThrew"
  /\ status = "rejected" => via # "none"

\* C26: collectDatasetItems terminates; each page it collects is the part
\* of the dataset at the offset equal to the number of items collected so
\* far; it stops on the first empty page; and when the run resolves from
\* the dataset, the items collected are all the items of the dataset, each
\* once and in dataset order.
C26_CollectsAllItems ==
  /\ (pc = "collect") ~> (pc = "done")
  /\ [][pc = "collect" =>
          /\ Len(items') <= Len(dataset)
          /\ items' = SubSeq(dataset, 1, Len(items'))
          /\ SubSeq(items', 1, Len(items)) = items
          /\ (items' = items => pc' = "done")]_vars
  /\ [](primary = "dataset" /\ status = "resolved" => items = dataset)

\* C26 witness: the run resolved with the two items of the dataset, which
\* differ.
C26_Witness ==
  /\ primary = "dataset" /\ status = "resolved"
  /\ Len(dataset) = MaxItems /\ items = dataset
  /\ \E i, j \in DOMAIN items : items[i] # items[j]

\* ------------------------------------------------------------------------
\* Property store: refreshes, loading flags, filters, generation
\* ------------------------------------------------------------------------
\* properties, statistics, lastUpdated and dataSource as one refresh
\* computes them, for every payload; and as the store holds them before the
\* first refresh and after a failure without cached listings
RefreshTuples ==
  { <<fetchedPayload.properties, fetchedPayload.statistics,
      Nullish(fetchedPayload.lastUpdated, Now), fetchedPayload.dataSource>> :
      fetchedPayload \in FetchedPayloads }
  \cup { <<defaultState.properties, defaultState.statistics,
           defaultState.lastUpdated, defaultState.dataSource>> }

\* a step in which a fetchProperties call settles
FetchSettles == fetching' = fetching - 1

\* the call resolved with the fetched listings and the entry persisted
\* before is still the persisted one, not holding these listings: setItem
\* threw
WriteFailed ==
  /\ returned'.kind = "success" /\ cache' = cache
  /\ cache' # persistToCache(state'.properties, state'.lastUpdated,
                              state'.statistics, state'.dataSource)

\* C27: under any interleaving of fetchProperties calls and reads, the
\* store holds properties, statistics, lastUpdated and dataSource of one
\* and the same refresh, and so does the persisted entry; and when a call
\* settles, the store's properties are those of the persisted entry if
\* there is one (storage writes succeeding).
C27_RefreshIsAtomic ==
  /\ [](<<state.properties, state.statistics, state.lastUpdated,
          state.dataSource>> \in RefreshTuples)
  /\ [](cache.kind = "entry" =>
          \E tuple \in RefreshTuples :
            cache = persistToCache(tuple[1], tuple[3], tuple[2], tuple[4]))
  /\ [][(FetchSettles /\ ~WriteFailed /\ cache'.kind = "entry") =>
          cache'.properties =
            Arr([i \in DOMAIN state'.properties |->
                   PropertyAsJson(state'.properties[i])])]_vars

\* C27 witness: two calls were in flight together; both have settled, the
\* last one with fetched listings, which the store and the persisted entry
\* hold, the entry having been replaced.
C27_Witness ==
  /\ fetched = MaxFetches /\ fetching = 0
  /\ returned.kind = "success" /\ state.properties # << >>
  /\ cache = persistToCache(state.properties, state.lastUpdated,
                            state.statistics, state.dataSource)

\* C28: the two loading flags agree in every state of the store and are
\* both false whenever no fetchProperties call is in flight; every call
\* eventually settles, and on each of its exits (fetched listings, cached
\* listings, failure without cached listings) it leaves both flags false.
C28_LoadingFlagsSettle ==
  /\ [](state.isLoading = state.loading)
  /\ [](fetching = 0 => (~state.isLoading /\ ~state.loading))
  /\ [][FetchSettles =>
          /\ ~state'.isLoading /\ ~state'.loading
          /\ returned'.kind \in {"success", "cached", "failed"}]_vars
  /\ \A n \in 1..MaxFetches : (fetching = n) ~> (fetching < n)

\* C28 witness: every call has settled, the last one on the cached exit
\* while the flags had been raised, and both flags are false.
C28_Witness ==
  /\ fetched = MaxFetches /\ fetching = 0
  /\ returned.kind = "cached"
  /\ ~state.isLoading /\ ~state.loading

\* the statuses a toggle may name, as `${status}` writes them
StatusNames ==
  { <<"A", "c", "t", "i", "v", "e">>, <<"P", "e", "n", "d", "i", "n", "g">>, <<"S", "o", "l", "d">>, <<"L", "e", "a", "s", "e", "d">>, <<"5">> }

\* the list without its i-th element
WithoutIndex(list, i) ==
  SubSeq(list, 1, i - 1) \o SubSeq(list, i + 1, Len(list))

Selected(list, name) == \E i \in DOMAIN list : list[i] = name

\* the status list is non-empty and without duplicates
StatusListWellFormed ==
  LET current == state.filters.status
  IN /\ current # << >>
     /\ \A i, j \in DOMAIN current : current[i] = current[j] => i = j

\* what a toggle of each status does in the current state: an absent one is
\* added at the end, the only one left stays, a present one is removed and
\* the others stay in their order; nothing else of the state changes
TogglesAct ==
  LET current == state.filters.status
  IN \A name \in StatusNames :
       LET toggled == toggleStatusFilter(state, Str(name))
       IN /\ toggled = [state EXCEPT !.filters.status = toggled.filters.status]
          /\ toggled.filters.status =
               IF ~Selected(current, name) THEN Append(current, name)
               ELSE IF Len(current) = 1 THEN current
               ELSE SelectSeq(current, LAMBDA x : x # name)

\* a step changes the status list by a reset, by adding an absent status at
\* the end, or by removing one status while others remain
StatusListStep ==
  LET current == state.filters.status
      next == state'.filters.status
  IN next # current =>
       \/ state'.filters = defaultFilters
       \/ \E name \in StatusNames :
            ~Selected(current, name) /\ next = Append(current, name)
       \/ \E i \in DOMAIN current :
            Len(current) > 1 /\ next = WithoutIndex(current, i)

\* C29: after any sequence of toggleStatusFilter and resetFilters from the
\* default filters the status filter is a non-empty list without
\* duplicates; toggling the only remaining status leaves it selected,
\* toggling an absent status adds it, and toggling a present status when
\* others remain removes exactly that status.
C29_StatusFilterNonEmpty ==
  /\ []StatusListWellFormed
  /\ []TogglesAct
  /\ [][StatusListStep]_vars

\* C29 witness: every default status but one was toggled off, and a status
\* that is not a default one was toggled on before that.
C29_Witness ==
  state.filters.status = << <<"L", "e", "a", "s", "e", "d">> >>

\* the generation status of an id in a state of the store
StatusOf(st, id) ==
  IF id \in DOMAIN st.generationStatus THEN st.generationStatus[id]
  ELSE "absent"

\* a call that is over
CallOver == [id |-> << >>, pc |-> "done", property |-> NoProperty]

\* steps of the calls of generatePropertyContent: a call for the id starts
\* and awaits the delay; a call returns at once; the call g stores its copy
\* and sets its timer; the call g fails; the timer of the call g fires
CallStarts(id) ==
  \E g \in BagToSet(gens') :
    g.id = id /\ g.pc = "delay" /\ gens' = gens (+) SetToBag({g})
CallReturnsAtOnce == gens' = gens (+) SetToBag({CallOver})
CallCompletes(g) ==
  /\ g.pc = "delay"
  /\ gens' = (gens (-) SetToBag({g})) (+) SetToBag({[g EXCEPT !.pc = "timer"]})
CallFails(g) ==
  g.pc = "delay" /\ gens' = (gens (-) SetToBag({g})) (+) SetToBag({CallOver})
TimerFires(g) ==
  g.pc = "timer" /\ gens' = (gens (-) SetToBag({g})) (+) SetToBag({CallOver})

\* the ids a step may concern
StepIds ==
  DOMAIN state.generationStatus \cup DOMAIN state'.generationStatus
  \cup { g.id : g \in BagToSet(gens) \cup BagToSet(gens') }

\* C30: per property id the generation status goes from absent to
\* 'loading' when a call starts, from 'loading' to 'success' or 'error'
\* when the call completes or fails, and from 'success' to absent when a
\* timer fires; under any interleaving of calls and timers a timer removes
\* the status only when it is 'success' and changes nothing otherwise,
\* generatedContent of an id is never removed once set, and a call for an
\* id no property has changes nothing.
C30_GenerationStatusLifecycle ==
  [][/\ \A id \in StepIds :
          /\ CallStarts(id) => StatusOf(state', id) = "loading"
          /\ StatusOf(state', id) # StatusOf(state, id) =>
               CASE StatusOf(state', id) = "loading" -> CallStarts(id)
                 [] StatusOf(state', id) = "success" ->
                      \E g \in BagToSet(gens) : g.id = id /\ CallCompletes(g)
                 [] StatusOf(state', id) = "error" ->
                      \E g \in BagToSet(gens) : g.id = id /\ CallFails(g)
                 [] OTHER ->
                      /\ StatusOf(state, id) = "success"
                      /\ \E g \in BagToSet(gens) : g.id = id /\ TimerFires(g)
          /\ id \in DOMAIN state.generatedContent =>
               id \in DOMAIN state'.generatedContent
     /\ \A g \in BagToSet(gens) :
          /\ CallCompletes(g) =>
               /\ StatusOf(state', g.id) = "success"
               /\ g.id \in DOMAIN state'.generatedContent
          /\ CallFails(g) => StatusOf(state', g.id) = "error"
          /\ TimerFires(g) =>
               state' = IF StatusOf(state, g.id) = "success"
                        THEN [state EXCEPT
                                !.generationStatus =
                                  [id \in DOMAIN state.generationStatus \ {g.id} |->
                                     state.generationStatus[id]]]
                        ELSE state
     /\ CallReturnsAtOnce => state' = state]_vars

\* C30 witness: a second call for an id is awaiting its delay, the status
\* being 'loading', while the timer of a first call for that id, whose copy
\* is stored, is still to fire.
C30_Witness ==
  \E g1, g2 \in BagToSet(gens) :
    /\ g1.pc = "timer" /\ g2.pc = "delay" /\ g1.id = g2.id
    /\ StatusOf(state, g1.id) = "loading"
    /\ g1.id \in DOMAIN state.generatedContent

====
